---- MODULE Spec2Model ----
(***************************************************************************)
(* A model of the Shopier payment SDK: credential resolution, the          *)
(* validators, the payment-request builder with its renderers, the         *)
(* signature engine and the callback verifier.                             *)
(*                                                                         *)
(* JavaScript values are tagged records: [t |-> "undefined"],              *)
(* [t |-> "null"], [t |-> "string", s |-> <<code units>>],                 *)
(* [t |-> "number", k |-> kind, h |-> hundredths], [t |-> "boolean", ...]. *)
(* A string is the sequence of its UTF-16 code units; a code unit is a     *)
(* one-character TLA+ string, or one of the named units below.  A finite   *)
(* number is kept in hundredths, so that 99.99 and 1.5 are representable   *)
(* and the number-to-string conversion is not the identity.                *)
(***************************************************************************)
EXTENDS Integers, Sequences, FiniteSets, TLC

VARIABLES
    env,      \* process.env: SHOPIER_API_KEY and SHOPIER_API_SECRET
    config,   \* the instance's private ResolvedConfig (NoConfig before construction)
    pc,       \* where the caller stands: "new", "idle", "returned", "failed"
    op,       \* the operation of the last call
    args,     \* its arguments
    out,      \* its outcome: a returned value or a thrown error
    steps     \* the collaborators the call invoked, in order

vars == <<env, config, pc, op, args, out, steps>>

\* ------------------------------------------------------------- bounds

\* Longest secret, message and installment string the model draws.
MaxLen == 2

\* Largest installment count the model asks for (the limit is 12).
MaxInstallmentTried == 13

\* ---------------------------------------------------------- JS values

Undefined == [t |-> "undefined"]
Null == [t |-> "null"]
Str(s) == [t |-> "string", s |-> s]
Num(h) == [t |-> "number", k |-> "finite", h |-> h]
Integer(n) == Num(n * 100)
NaN == [t |-> "number", k |-> "NaN", h |-> 0]
PosInfinity == [t |-> "number", k |-> "+Infinity", h |-> 0]
NegInfinity == [t |-> "number", k |-> "-Infinity", h |-> 0]
Bool(b) == [t |-> "boolean", b |-> b]

IsStr(v) == v.t = "string"
IsNum(v) == v.t = "number"
IsNullish(v) == v.t \in {"undefined", "null"}

\* a ?? b
Coalesce(a, b) == IF IsNullish(a) THEN b ELSE a

\* ToBoolean
Truthy(v) ==
    CASE v.t = "string" -> v.s # <<>>
      [] v.t = "number" -> v.k \in {"+Infinity", "-Infinity"} \/ (v.k = "finite" /\ v.h # 0)
      [] v.t = "boolean" -> v.b
      [] v.t \in {"object", "array"} -> TRUE
      [] OTHER -> FALSE

\* a || b
OrElse(a, b) == IF Truthy(a) THEN a ELSE b

\* a default in a destructuring pattern applies to undefined only
Default(a, b) == IF a.t = "undefined" THEN b ELSE a

\* ------------------------------------------------------------ strings

\* U+0000, an unpaired surrogate and U+FFFD, as single code units.
NUL == "NUL"
LoneSurrogate == "uD800"
ReplacementChar == "uFFFD"

SeqsUpTo(S, n) == UNION {[1..k -> S] : k \in 0..n}

IsWhitespace(c) == c = " "

RECURSIVE TrimStart(_)
TrimStart(s) ==
    IF s # <<>> /\ IsWhitespace(Head(s)) THEN TrimStart(Tail(s)) ELSE s

RECURSIVE TrimEnd(_)
TrimEnd(s) ==
    IF s # <<>> /\ IsWhitespace(s[Len(s)]) THEN TrimEnd(SubSeq(s, 1, Len(s) - 1)) ELSE s

\* String.prototype.trim
Trim(s) == TrimEnd(TrimStart(s))

DigitChars == <<"0", "1", "2", "3", "4", "5", "6", "7", "8", "9">>
IsDigit(c) == \E d \in 1..10 : DigitChars[d] = c
DigitValue(c) == (CHOOSE d \in 1..10 : DigitChars[d] = c) - 1

RECURSIVE NatToString(_)
NatToString(n) ==
    IF n < 10 THEN <<DigitChars[n + 1]>>
    ELSE NatToString(n \div 10) \o <<DigitChars[(n % 10) + 1]>>

\* Number.prototype.toString: the shortest decimal that reads back as the number.
NumberToString(v) ==
    CASE v.k = "NaN" -> <<"N", "a", "N">>
      [] v.k = "+Infinity" -> <<"I", "n", "f", "i", "n", "i", "t", "y">>
      [] v.k = "-Infinity" -> <<"-", "I", "n", "f", "i", "n", "i", "t", "y">>
      [] OTHER ->
          LET a == IF v.h < 0 THEN -v.h ELSE v.h
              f == a % 100
              frac == IF f = 0 THEN <<>>
                      ELSE IF f % 10 = 0 THEN <<".", DigitChars[(f \div 10) + 1]>>
                      ELSE <<".", DigitChars[(f \div 10) + 1], DigitChars[(f % 10) + 1]>>
          IN (IF v.h < 0 THEN <<"-">> ELSE <<>>) \o NatToString(a \div 100) \o frac

\* ToString, as a template literal `${v}` and String(v) apply it.
JsToString(v) ==
    CASE v.t = "string" -> v.s
      [] v.t = "number" -> NumberToString(v)
      [] v.t = "undefined" -> <<"u", "n", "d", "e", "f", "i", "n", "e", "d">>
      [] v.t = "null" -> <<"n", "u", "l", "l">>
      [] v.t = "boolean" -> IF v.b THEN <<"t", "r", "u", "e">> ELSE <<"f", "a", "l", "s", "e">>

\* Every unit followed by ";": an injective name of a sequence of units.
RECURSIVE Join(_)
Join(s) == IF s = <<>> THEN "" ELSE Head(s) \o ";" \o Join(Tail(s))

\* ---------------------------------------------------- signature engine

\* The bytes Buffer.from(s, 'utf8') and hmac.update(s) see: an ASCII unit is
\* one byte, U+0000 the byte 00, and an unpaired surrogate is encoded as
\* U+FFFD is (EF BF BD).  A base64 run stands for its own 44 ASCII bytes.
Utf8Unit(c) ==
    CASE c = NUL -> <<"00">>
      [] c \in {LoneSurrogate, ReplacementChar} -> <<"EF", "BF", "BD">>
      [] OTHER -> <<c>>

RECURSIVE Utf8(_)
Utf8(s) == IF s = <<>> THEN <<>> ELSE Utf8Unit(Head(s)) \o Utf8(Tail(s))

\* HMAC pads a key shorter than the hash block with zero bytes: a key and the
\* same key followed by 00 bytes are one key.  (Keys longer than the 64-byte
\* block, which are hashed first, are beyond MaxLen.)
RECURSIVE HmacKey(_)
HmacKey(bytes) ==
    IF bytes # <<>> /\ bytes[Len(bytes)] = "00"
    THEN HmacKey(SubSeq(bytes, 1, Len(bytes) - 1))
    ELSE bytes

\* Length of digest('base64') for a 32-byte SHA-256 digest.
Base64DigestLength == 44

\* generateSignature: HMAC-SHA256 in base64, as one opaque run of 44 base64
\* characters that names the key and the message bytes (SHA-256 taken as
\* collision free).
generateSignature(secret, data) ==
    <<"hmac(" \o Join(HmacKey(Utf8(secret))) \o "," \o Join(Utf8(data)) \o ")">>

\* The code units a caller can type; anything else in a string is a base64 run.
CodeUnits ==
    {NUL, LoneSurrogate, ReplacementChar, " ", "=", "@", ".", "-", "+", "(", ")",
     "&", "<", ">", "\"", "'", "x", "k", "m", "a", "b", "s"}
    \cup {DigitChars[d] : d \in 1..10}

UnitByteLength(c) ==
    IF c \notin CodeUnits THEN Base64DigestLength ELSE Len(Utf8Unit(c))

RECURSIVE ByteLength(_)
ByteLength(s) == IF s = <<>> THEN 0 ELSE UnitByteLength(Head(s)) + ByteLength(Tail(s))

\* A comparison that stops at the length check.
verifySignature_lengthOnly(secret, data, signature) ==
    LET expectedSignature == generateSignature(secret, data)
    IN IsStr(signature) /\ ByteLength(expectedSignature) = ByteLength(signature.s)

\* verifySignature(secret, data, signature): secret and data are strings, the
\* candidate is any JS value (Buffer.from throws on a non-string, and the
\* catch turns that into false).
verifySignature(secret, data, signature) ==
    LET expectedSignature == generateSignature(secret, data)
    IN IF ~IsStr(signature) THEN FALSE
       ELSE IF ByteLength(expectedSignature) # ByteLength(signature.s) THEN FALSE
       ELSE Utf8(expectedSignature) = Utf8(signature.s)

\* ------------------------------------------------------------- calls

NoEnv == [SHOPIER_API_KEY |-> Undefined, SHOPIER_API_SECRET |-> Undefined]
NoConfig == [t |-> "undefined"]
NoArgs == [t |-> "undefined"]
NoOut == [kind |-> "none"]

Return(v) == [kind |-> "return", value |-> v]
Throw(e) == [kind |-> "throw", error |-> e]

\* The caller takes the outcome and is ready for the next call.
Continue ==
    /\ pc = "returned"
    /\ pc' = "idle"
    /\ op' = "none"
    /\ args' = NoArgs
    /\ out' = NoOut
    /\ steps' = <<>>
    /\ UNCHANGED <<env, config>>

\* ------------------------------------- the signature engine on its own

SigSecrets == SeqsUpTo({"k", NUL}, MaxLen)
SigMessages == SeqsUpTo({"m", LoneSurrogate, ReplacementChar}, MaxLen)

\* Candidates for (secret, data): a signature of any secret and message, the
\* right signature with one more character, short strings, and non-strings.
SigCandidates(secret, data) ==
    {Str(generateSignature(s2, m2)) : s2 \in SigSecrets, m2 \in SigMessages}
    \cup {Str(generateSignature(secret, data) \o <<"=">>)}
    \cup {Str(c) : c \in SeqsUpTo({"a", LoneSurrogate}, MaxLen)}
    \cup {Undefined, Null}

VerifySignatureCall(secret, data, signature) ==
    /\ pc = "idle"
    /\ pc' = "returned"
    /\ op' = "verifySignature"
    /\ args' = [secret |-> secret, data |-> data, signature |-> signature]
    /\ out' = Return(verifySignature(secret, data, signature))
    /\ steps' = <<>>
    /\ UNCHANGED <<env, config>>

InitSig ==
    /\ env = NoEnv
    /\ config = NoConfig
    /\ pc = "idle"
    /\ op = "none"
    /\ args = NoArgs
    /\ out = NoOut
    /\ steps = <<>>

NextSig ==
    \/ \E secret \in SigSecrets, data \in SigMessages :
          \E signature \in SigCandidates(secret, data) :
             VerifySignatureCall(secret, data, signature)
    \/ Continue

SpecSig == InitSig /\ [][NextSig]_vars

\* --------------------------------------------------------------- errors

NoDetails == [t |-> "undefined"]

\* ShopierError: name, message, code and the optional details object.
ShopierError(name, message, code, details) ==
    [name |-> name, message |-> message, code |-> code, details |-> details]

InvalidApiKeyError(message) ==
    ShopierError("InvalidApiKeyError", message, "INVALID_API_KEY", NoDetails)

InvalidApiSecretError(message) ==
    ShopierError("InvalidApiSecretError", message, "INVALID_API_SECRET", NoDetails)

ValidationError(message, details) ==
    ShopierError("ValidationError", message, "VALIDATION_ERROR", details)

SignatureValidationError(message, details) ==
    ShopierError("SignatureValidationError", message, "SIGNATURE_VALIDATION_ERROR", details)

\* ------------------------------------------------- configuration resolver

LanguageTR == Integer(0)
LanguageEN == Integer(1)

DEFAULT_CONFIG ==
    [language |-> LanguageTR,
     moduleVersion |-> Str(<<"1", ".", "0", ".", "4">>),
     websiteIndex |-> Integer(1)]

\* The environment variable wins over the explicit value.
resolveCredential_envFirst(configValue, envValue) ==
    IF Truthy(envValue) /\ Trim(envValue.s) # <<>> THEN Str(Trim(envValue.s))
    ELSE IF Truthy(configValue) /\ Trim(configValue.s) # <<>> THEN Str(Trim(configValue.s))
    ELSE Undefined

\* The value is returned as it was given, not trimmed.
resolveCredential_untrimmed(configValue, envValue) ==
    IF Truthy(configValue) /\ Trim(configValue.s) # <<>> THEN configValue
    ELSE IF Truthy(envValue) /\ Trim(envValue.s) # <<>> THEN envValue
    ELSE Undefined

\* The body shared by resolveApiKey and resolveApiSecret; configValue is a
\* string or undefined, envValue the variable's value in process.env.
resolveCredential(configValue, envValue) ==
    IF Truthy(configValue) /\ Trim(configValue.s) # <<>> THEN Str(Trim(configValue.s))
    ELSE IF Truthy(envValue) /\ Trim(envValue.s) # <<>> THEN Str(Trim(envValue.s))
    ELSE Undefined

resolveApiKey(configValue, e) == resolveCredential(configValue, e.SHOPIER_API_KEY)

resolveApiSecret(configValue, e) == resolveCredential(configValue, e.SHOPIER_API_SECRET)

\* config = {} when the argument is omitted
EmptyConfig ==
    [apiKey |-> Undefined, apiSecret |-> Undefined, language |-> Undefined,
     moduleVersion |-> Undefined, websiteIndex |-> Undefined]

\* The secret is examined before the key.
resolveConfig_secretFirst(cfg, e) ==
    LET apiKey == resolveApiKey(cfg.apiKey, e)
        apiSecret == resolveApiSecret(cfg.apiSecret, e)
    IN IF ~Truthy(apiSecret)
       THEN Throw(InvalidApiSecretError("API secret is missing or empty"))
       ELSE IF ~Truthy(apiKey) THEN Throw(InvalidApiKeyError("API key is missing or empty"))
       ELSE Return([apiKey |-> apiKey,
                    apiSecret |-> apiSecret,
                    language |-> Coalesce(cfg.language, DEFAULT_CONFIG.language),
                    moduleVersion |-> Coalesce(cfg.moduleVersion, DEFAULT_CONFIG.moduleVersion),
                    websiteIndex |-> Coalesce(cfg.websiteIndex, DEFAULT_CONFIG.websiteIndex)])

resolveConfig(cfg, e) ==
    LET apiKey == resolveApiKey(cfg.apiKey, e)
        apiSecret == resolveApiSecret(cfg.apiSecret, e)
    IN IF ~Truthy(apiKey) THEN Throw(InvalidApiKeyError("API key is missing or empty"))
       ELSE IF ~Truthy(apiSecret)
       THEN Throw(InvalidApiSecretError("API secret is missing or empty"))
       ELSE Return([apiKey |-> apiKey,
                    apiSecret |-> apiSecret,
                    language |-> Coalesce(cfg.language, DEFAULT_CONFIG.language),
                    moduleVersion |-> Coalesce(cfg.moduleVersion, DEFAULT_CONFIG.moduleVersion),
                    websiteIndex |-> Coalesce(cfg.websiteIndex, DEFAULT_CONFIG.websiteIndex)])

\* ------------------------------------------------------------ validator

\* A details object: its entries in insertion order.
Object(entries) == [t |-> "object", entries |-> entries]
Entry(key, value) == [key |-> key, value |-> value]
Array(items) == [t |-> "array", items |-> items]

Ok == Return(Undefined)

IsFinite(v) == IsNum(v) /\ v.k = "finite"
IsInteger(v) == IsFinite(v) /\ v.h % 100 = 0

\* validateConfig(config), with the environment e
validateConfig(cfg, e) ==
    LET apiKey == OrElse(cfg.apiKey, e.SHOPIER_API_KEY)
        apiSecret == OrElse(cfg.apiSecret, e.SHOPIER_API_SECRET)
    IN IF ~Truthy(apiKey) \/ Trim(apiKey.s) = <<>>
       THEN Throw(InvalidApiKeyError("API key is missing or empty"))
       ELSE IF ~Truthy(apiSecret) \/ Trim(apiSecret.s) = <<>>
       THEN Throw(InvalidApiSecretError("API secret is missing or empty"))
       ELSE Ok

\* Zero passes.
validateAmount_zeroAllowed(amount) ==
    IF ~IsFinite(amount) \/ amount.h < 0
    THEN Throw(ValidationError("Amount must be a valid positive number",
               Object(<<Entry(<<"f", "i", "e", "l", "d">>, Str(<<"amount">>)),
                        Entry(<<"v", "a", "l", "u", "e">>, amount)>>)))
    ELSE Ok

validateAmount(amount) ==
    IF ~IsFinite(amount) \/ amount.h <= 0
    THEN Throw(ValidationError("Amount must be a valid positive number",
               Object(<<Entry(<<"f", "i", "e", "l", "d">>, Str(<<"amount">>)),
                        Entry(<<"v", "a", "l", "u", "e">>, amount)>>)))
    ELSE Ok

\* /^[^\s@]+@[^\s@]+\.[^\s@]+$/ : one "@", no white space, something before
\* the "@", and after it a "." with something on both sides.
EmailRegexTest(s) ==
    \E i \in 2..Len(s) :
        /\ s[i] = "@"
        /\ \A k \in 1..Len(s) : ~IsWhitespace(s[k]) /\ (s[k] = "@" => k = i)
        /\ \E j \in (i + 2)..(Len(s) - 1) : s[j] = "."

validateEmail(email) ==
    IF ~Truthy(email) \/ ~IsStr(email) THEN FALSE
    ELSE EmailRegexTest(Trim(email.s))

\* Only a plus sign at the head is taken out.
StripPhoneSeparators_leadingPlus(s) ==
    LET rest == IF s # <<>> /\ s[1] = "+" THEN Tail(s) ELSE s
    IN SelectSeq(rest, LAMBDA c : ~(IsWhitespace(c) \/ c \in {"-", "(", ")"}))

\* phone.replace(/[\s\-\(\)\+]/g, '')
StripPhoneSeparators(s) ==
    SelectSeq(s, LAMBDA c : ~(IsWhitespace(c) \/ c \in {"-", "(", ")", "+"}))

validatePhone(phone) ==
    IF ~Truthy(phone) \/ ~IsStr(phone) THEN FALSE
    ELSE LET digitsOnly == StripPhoneSeparators(phone.s)
         IN /\ Len(digitsOnly) >= 7
            /\ Len(digitsOnly) <= 15
            /\ \A i \in 1..Len(digitsOnly) : IsDigit(digitsOnly[i])

requiredFields == <<"id", "firstName", "lastName", "email", "phone", "productName">>

IsMissingValue(value) ==
    \/ value.t = "undefined"
    \/ value.t = "null"
    \/ (IsStr(value) /\ Trim(value.s) = <<>>)

RECURSIVE JoinComma(_)
JoinComma(names) ==
    IF names = <<>> THEN ""
    ELSE IF Len(names) = 1 THEN names[1]
    ELSE names[1] \o ", " \o JoinComma(Tail(names))

\* Only the first missing field is reported.
validateBuyer_firstMissingOnly(buyer) ==
    LET missingFields == SelectSeq(requiredFields, LAMBDA f : IsMissingValue(buyer[f]))
    IN IF Len(missingFields) > 0
       THEN Throw(ValidationError(
                "Missing required buyer fields: " \o missingFields[1],
                Object(<<Entry(<<"m", "i", "s", "s", "i", "n", "g", "F", "i", "e", "l", "d", "s">>,
                               Array(<<missingFields[1]>>))>>)))
       ELSE IF ~validateEmail(buyer.email)
       THEN Throw(ValidationError("Invalid email format",
                Object(<<Entry(<<"f", "i", "e", "l", "d">>, Str(<<"email">>)),
                         Entry(<<"v", "a", "l", "u", "e">>, buyer.email)>>)))
       ELSE IF ~validatePhone(buyer.phone)
       THEN Throw(ValidationError("Invalid phone number format",
                Object(<<Entry(<<"f", "i", "e", "l", "d">>, Str(<<"phone">>)),
                         Entry(<<"v", "a", "l", "u", "e">>, buyer.phone)>>)))
       ELSE Ok

validateBuyer(buyer) ==
    LET missingFields == SelectSeq(requiredFields, LAMBDA f : IsMissingValue(buyer[f]))
    IN IF Len(missingFields) > 0
       THEN Throw(ValidationError(
                "Missing required buyer fields: " \o JoinComma(missingFields),
                Object(<<Entry(<<"m", "i", "s", "s", "i", "n", "g", "F", "i", "e", "l", "d", "s">>,
                               Array(missingFields))>>)))
       ELSE IF ~validateEmail(buyer.email)
       THEN Throw(ValidationError("Invalid email format",
                Object(<<Entry(<<"f", "i", "e", "l", "d">>, Str(<<"email">>)),
                         Entry(<<"v", "a", "l", "u", "e">>, buyer.email)>>)))
       ELSE IF ~validatePhone(buyer.phone)
       THEN Throw(ValidationError("Invalid phone number format",
                Object(<<Entry(<<"f", "i", "e", "l", "d">>, Str(<<"phone">>)),
                         Entry(<<"v", "a", "l", "u", "e">>, buyer.phone)>>)))
       ELSE Ok

\* The upper limit is one too high.
validateInstallment_thirteenAllowed(installment) ==
    IF ~IsInteger(installment) \/ installment.h < 0 \/ installment.h > 13 * 100
    THEN Throw(ValidationError("Installment must be an integer between 0 and 12",
               Object(<<Entry(<<"f", "i", "e", "l", "d">>, Str(<<"installment">>)),
                        Entry(<<"v", "a", "l", "u", "e">>, installment)>>)))
    ELSE Ok

validateInstallment(installment) ==
    IF ~IsInteger(installment) \/ installment.h < 0 \/ installment.h > 12 * 100
    THEN Throw(ValidationError("Installment must be an integer between 0 and 12",
               Object(<<Entry(<<"f", "i", "e", "l", "d">>, Str(<<"installment">>)),
                        Entry(<<"v", "a", "l", "u", "e">>, installment)>>)))
    ELSE Ok

\* ------------------------------------------------------- error redaction

SENSITIVE_FIELDS ==
    <<<<"e", "m", "a", "i", "l">>, <<"p", "h", "o", "n", "e">>, <<"v", "a", "l", "u", "e">>,
      <<"p", "a", "s", "s", "w", "o", "r", "d">>, <<"s", "e", "c", "r", "e", "t">>,
      <<"t", "o", "k", "e", "n">>, <<"a", "p", "i", "S", "e", "c", "r", "e", "t">>,
      <<"a", "p", "i", "K", "e", "y">>>>

REDACTED == Str(<<"[REDACTED]">>)

UpperCase == <<"A", "B", "C", "D", "E", "F", "G", "H", "I", "J", "K", "L", "M",
               "N", "O", "P", "Q", "R", "S", "T", "U", "V", "W", "X", "Y", "Z">>
LowerCase == <<"a", "b", "c", "d", "e", "f", "g", "h", "i", "j", "k", "l", "m",
               "n", "o", "p", "q", "r", "s", "t", "u", "v", "w", "x", "y", "z">>

ToLowerCase(s) ==
    [i \in 1..Len(s) |->
        IF \E u \in 1..26 : UpperCase[u] = s[i]
        THEN LowerCase[CHOOSE u \in 1..26 : UpperCase[u] = s[i]]
        ELSE s[i]]

\* String.prototype.includes
Includes(s, part) ==
    \E i \in 0..(Len(s) - Len(part)) : SubSeq(s, i + 1, i + Len(part)) = part

\* The key is compared as it is written.
IsSensitive_caseSensitive(key) ==
    \E f \in 1..Len(SENSITIVE_FIELDS) : Includes(key, ToLowerCase(SENSITIVE_FIELDS[f]))

IsSensitive(key) ==
    \E f \in 1..Len(SENSITIVE_FIELDS) :
        Includes(ToLowerCase(key), ToLowerCase(SENSITIVE_FIELDS[f]))

getSafeDetails(error) ==
    IF ~Truthy(error.details) THEN Undefined
    ELSE Object([i \in 1..Len(error.details.entries) |->
                    LET e == error.details.entries[i]
                    IN IF IsSensitive(e.key) THEN Entry(e.key, REDACTED) ELSE e])

toSafeJSON(error) ==
    [name |-> error.name,
     message |-> error.message,
     code |-> error.code,
     details |-> getSafeDetails(error)]

\* ------------------------------------------------------------- escaping

\* The apostrophe is left as it is.
HTML_ESCAPE_MAP_noApostrophe(char) ==
    CASE char = "&" -> <<"&", "a", "m", "p", ";">>
      [] char = "<" -> <<"&", "l", "t", ";">>
      [] char = ">" -> <<"&", "g", "t", ";">>
      [] char = "\"" -> <<"&", "q", "u", "o", "t", ";">>
      [] OTHER -> <<char>>

HTML_ESCAPE_MAP(char) ==
    CASE char = "&" -> <<"&", "a", "m", "p", ";">>
      [] char = "<" -> <<"&", "l", "t", ";">>
      [] char = ">" -> <<"&", "g", "t", ";">>
      [] char = "\"" -> <<"&", "q", "u", "o", "t", ";">>
      [] char = "'" -> <<"&", "#", "x", "2", "7", ";">>
      [] OTHER -> <<char>>

RECURSIVE EscapeUnits(_)
EscapeUnits(s) ==
    IF s = <<>> THEN <<>> ELSE HTML_ESCAPE_MAP(Head(s)) \o EscapeUnits(Tail(s))

\* escapeHtml(input): the escaped text, '' for a non-string
escapeHtml(input) == IF ~IsStr(input) THEN <<>> ELSE EscapeUnits(input.s)

\* ------------------------------------------------------------ renderers

\* Markup written by the program is kept as whole chunks, each one unit of the
\* produced text; text that comes from a value is there unit by unit.
InputElement(key, value) ==
    <<"<input type=\"hidden\" name=\"">> \o escapeHtml(Str(<<key>>))
        \o <<"\" value=\"">> \o escapeHtml(Str(JsToString(value))) \o <<"\" />">>

RECURSIVE RenderInputs(_, _)
RenderInputs(formData, keys) ==
    IF keys = <<>> THEN <<>>
    ELSE IF Len(keys) = 1 THEN InputElement(keys[1], formData[keys[1]])
    ELSE InputElement(keys[1], formData[keys[1]]) \o <<"\n">>
             \o RenderInputs(formData, Tail(keys))

\* The keys of a field set, in insertion order (Object.entries).
FormDataKeys ==
    <<"API_key", "website_index", "platform_order_id", "product_name", "product_type",
      "buyer_name", "buyer_surname", "buyer_email", "buyer_account_age", "buyer_id_nr",
      "buyer_phone", "billing_address", "billing_city", "billing_country",
      "billing_postcode", "shipping_address", "shipping_city", "shipping_country",
      "shipping_postcode", "total_order_value", "currency", "platform", "is_in_frame",
      "current_language", "modul_version", "random_nr", "signature">>

\* Object.entries(formData): the keys of a field set, then a key that the
\* caller has added to it, if any.
ObjectKeys(formData) ==
    LET added == (DOMAIN formData) \ {FormDataKeys[i] : i \in 1..Len(FormDataKeys)}
    IN IF added = {} THEN FormDataKeys ELSE FormDataKeys \o <<CHOOSE key \in added : TRUE>>

renderHiddenInputs(formData) == RenderInputs(formData, ObjectKeys(formData))

renderAutoSubmitHTML(formData, actionUrl, language) ==
    LET escapedActionUrl == escapeHtml(actionUrl)
        hiddenInputs == renderHiddenInputs(formData)
        loadingMessage == IF language = LanguageEN
                          THEN Str(<<"Redirecting to payment page...">>)
                          ELSE Str(<<"Odeme sayfasina yonlendiriliyorsunuz...">>)
    IN <<"<!DOCTYPE html>...<div class=\"loading\"><div class=\"spinner\"></div><p>">>
           \o escapeHtml(loadingMessage)
           \o <<"</p></div><form id=\"shopier-form\" action=\"">>
           \o escapedActionUrl
           \o <<"\" method=\"POST\">\n">>
           \o hiddenInputs
           \o <<"\n</form><script>document.getElementById('shopier-form').submit();</script></body></html>">>

DEFAULT_BUTTON_TEXT(language) ==
    IF language = LanguageEN THEN <<"Pay with Shopier">> ELSE <<"Shopier ile Ode">>

NoButtonOptions == [buttonText |-> Undefined, className |-> Undefined, style |-> Undefined]

\* The style is put in as given.
renderButton_rawStyle(formData, actionUrl, options) ==
    LET escapedActionUrl == escapeHtml(actionUrl)
        hiddenInputs == renderHiddenInputs(formData)
        language == IF formData.current_language = LanguageEN THEN LanguageEN
                    ELSE LanguageTR
        buttonText == IF Truthy(options.buttonText) THEN escapeHtml(options.buttonText)
                      ELSE DEFAULT_BUTTON_TEXT(language)
        className == IF Truthy(options.className)
                     THEN <<"shopier-button ">> \o escapeHtml(options.className)
                     ELSE <<"shopier-button">>
        styleAttr == IF Truthy(options.style)
                     THEN <<"\" style=\"">> \o options.style.s \o <<"\">">>
                     ELSE <<"\">">>
        formId == escapeHtml(Str(<<"shopier-form-">> \o JsToString(formData.random_nr)))
    IN <<"<style>...</style>\n<form id=\"">> \o formId
           \o <<"\" action=\"">> \o escapedActionUrl
           \o <<"\" method=\"POST\" style=\"display:inline;\">\n">>
           \o hiddenInputs
           \o <<"\n  <button type=\"submit\" class=\"">> \o className
           \o styleAttr \o buttonText \o <<"</button>\n</form>">>

\* The quote that closes the class and the > that closes the tag are written
\* with the style attribute between them, so that markup stays in whole chunks.
renderButton(formData, actionUrl, options) ==
    LET escapedActionUrl == escapeHtml(actionUrl)
        hiddenInputs == renderHiddenInputs(formData)
        language == IF formData.current_language = LanguageEN THEN LanguageEN
                    ELSE LanguageTR
        buttonText == IF Truthy(options.buttonText) THEN escapeHtml(options.buttonText)
                      ELSE DEFAULT_BUTTON_TEXT(language)
        className == IF Truthy(options.className)
                     THEN <<"shopier-button ">> \o escapeHtml(options.className)
                     ELSE <<"shopier-button">>
        styleAttr == IF Truthy(options.style)
                     THEN <<"\" style=\"">> \o escapeHtml(options.style) \o <<"\">">>
                     ELSE <<"\">">>
        formId == escapeHtml(Str(<<"shopier-form-">> \o JsToString(formData.random_nr)))
    IN <<"<style>...</style>\n<form id=\"">> \o formId
           \o <<"\" action=\"">> \o escapedActionUrl
           \o <<"\" method=\"POST\" style=\"display:inline;\">\n">>
           \o hiddenInputs
           \o <<"\n  <button type=\"submit\" class=\"">> \o className
           \o styleAttr \o buttonText \o <<"</button>\n</form>">>

\* ------------------------------------------------------ random numbers

MIN_RANDOM == 100000
MAX_RANDOM == 999999

\* How many values strictly inside the range the model draws.
NonceSamples == 1

\* crypto.randomInt(min, max): any integer n with min <= n < max; the model
\* draws both ends of the range and NonceSamples values inside it.
randomInt(min, max) ==
    {n \in {min, max - 1} \cup {min + (k * 23456) : k \in 1..NonceSamples} :
        min <= n /\ n < max}

\* An upper end one too far.
generateRandomNumber_sevenDigits == randomInt(MIN_RANDOM, MAX_RANDOM + 2)

\* generateRandomNumber(): the values one call can return
generateRandomNumber == randomInt(MIN_RANDOM, MAX_RANDOM + 1)

\* ----------------------------------------------- payment-request builder

SHOPIER_ACTION_URL == Str(<<"https://www.shopier.com/ShowProduct/api_pay4.php">>)

CurrencyTL == Integer(0)
ProductTypeREAL_OBJECT == Integer(0)
PlatformTypeIN_FRAME == Integer(0)
PlatformTypeNOT_IN_FRAME == Integer(1)

\* The message in another order.
generatePaymentSignature_orderFirst(secret, randomNr, orderId, amount, currency) ==
    generateSignature(secret,
        JsToString(orderId) \o JsToString(randomNr) \o JsToString(amount)
            \o JsToString(currency))

\* The secret and the message, not hashed.
generatePaymentSignature_unhashed(secret, randomNr, orderId, amount, currency) ==
    secret \o JsToString(randomNr) \o JsToString(orderId) \o JsToString(amount)
        \o JsToString(currency)

generatePaymentSignature(secret, randomNr, orderId, amount, currency) ==
    generateSignature(secret,
        JsToString(randomNr) \o JsToString(orderId) \o JsToString(amount)
            \o JsToString(currency))

\* maxInstallment !== 0
IsNotZero(v) == ~(IsFinite(v) /\ v.h = 0)

\* The installment check left out.
validateInputs_noInstallmentCheck(options) ==
    LET a == validateAmount(options.amount)
        b == validateBuyer(options.buyer)
    IN IF a.kind = "throw" THEN [out |-> a, steps |-> <<"validateAmount">>]
       ELSE IF b.kind = "throw" THEN [out |-> b, steps |-> <<"validateAmount", "validateBuyer">>]
       ELSE [out |-> Ok, steps |-> <<"validateAmount", "validateBuyer">>]

\* The buyer checked before the amount.
validateInputs_buyerFirst(options) ==
    LET maxInstallment == Default(options.maxInstallment, Integer(0))
        a == validateAmount(options.amount)
        b == validateBuyer(options.buyer)
        i == validateInstallment(maxInstallment)
    IN IF b.kind = "throw" THEN [out |-> b, steps |-> <<"validateBuyer">>]
       ELSE IF a.kind = "throw" THEN [out |-> a, steps |-> <<"validateBuyer", "validateAmount">>]
       ELSE IF IsNotZero(maxInstallment)
       THEN [out |-> i, steps |-> <<"validateBuyer", "validateAmount", "validateInstallment">>]
       ELSE [out |-> Ok, steps |-> <<"validateBuyer", "validateAmount">>]

\* buildFormData, "Validate inputs": the outcome of the checks and the
\* validators called, in order.
validateInputs(options) ==
    LET maxInstallment == Default(options.maxInstallment, Integer(0))
        a == validateAmount(options.amount)
        b == validateBuyer(options.buyer)
        i == validateInstallment(maxInstallment)
    IN IF a.kind = "throw" THEN [out |-> a, steps |-> <<"validateAmount">>]
       ELSE IF b.kind = "throw" THEN [out |-> b, steps |-> <<"validateAmount", "validateBuyer">>]
       ELSE IF IsNotZero(maxInstallment)
       THEN [out |-> i, steps |-> <<"validateAmount", "validateBuyer", "validateInstallment">>]
       ELSE [out |-> Ok, steps |-> <<"validateAmount", "validateBuyer">>]

BlankAddress ==
    [t |-> "object", address |-> Str(<<>>), city |-> Str(<<>>),
     country |-> Str(<<>>), postcode |-> Str(<<>>)]

\* The placeholder forgotten: the fields of an omitted address are undefined.
AddressOr_noPlaceholder(first, second) ==
    IF Truthy(first) THEN first
    ELSE IF Truthy(second) THEN second
    ELSE [t |-> "object", address |-> Undefined, city |-> Undefined,
          country |-> Undefined, postcode |-> Undefined]

\* Nothing stands in for an omitted address but the placeholder.
AddressOr_placeholderOnly(first, second) == OrElse(first, BlankAddress)

\* first || second || { address: '', city: '', country: '', postcode: '' }
AddressOr(first, second) == OrElse(first, OrElse(second, BlankAddress))

\* The override ignored.
ResolveRandomNr_alwaysGenerated(randomNrOverride, generated) == Integer(generated)

\* randomNrOverride ?? generateRandomNumber()
ResolveRandomNr(randomNrOverride, generated) == Coalesce(randomNrOverride, Integer(generated))

\* buildFormData(options) on an instance with configuration cfg, where
\* generated is what generateRandomNumber() returns if it is called.
\* The buyer's own order id is ignored.
ResolveOrderId_idOnly(buyer) == buyer.id

\* buyer.platformOrderId || buyer.id
ResolveOrderId(buyer) == OrElse(buyer.platformOrderId, buyer.id)

buildFormData(cfg, options, generated) ==
    LET amount == options.amount
        buyer == options.buyer
        billing == options.billing
        shipping == options.shipping
        currency == Default(options.currency, CurrencyTL)
        maxInstallment == Default(options.maxInstallment, Integer(0))
        language == Default(options.language, cfg.language)
        productType == Default(options.productType, ProductTypeREAL_OBJECT)
        platformType == Default(options.platformType, PlatformTypeNOT_IN_FRAME)
        websiteIndex == Default(options.websiteIndex, cfg.websiteIndex)
        isInFrame == Default(options.isInFrame, Bool(FALSE))
        randomNrOverride == options.randomNr
        checked == validateInputs(options)
    IN IF checked.out.kind = "throw" THEN checked
       ELSE
         LET randomNr == ResolveRandomNr(randomNrOverride, generated)
             orderId == ResolveOrderId(buyer)
             signature == generatePaymentSignature(cfg.apiSecret.s, randomNr, orderId,
                                                   amount, currency)
             finalProductType == Coalesce(buyer.productType, productType)
             billingAddr == AddressOr(billing, Undefined)
             shippingAddr == AddressOr(shipping, billing)
         IN [out |-> Return(
                [API_key |-> cfg.apiKey,
                 website_index |-> websiteIndex,
                 platform_order_id |-> orderId,
                 product_name |-> buyer.productName,
                 product_type |-> finalProductType,
                 buyer_name |-> buyer.firstName,
                 buyer_surname |-> buyer.lastName,
                 buyer_email |-> buyer.email,
                 buyer_account_age |-> Coalesce(buyer.accountAge, Integer(0)),
                 buyer_id_nr |-> buyer.id,
                 buyer_phone |-> buyer.phone,
                 billing_address |-> billingAddr.address,
                 billing_city |-> billingAddr.city,
                 billing_country |-> billingAddr.country,
                 billing_postcode |-> billingAddr.postcode,
                 shipping_address |-> shippingAddr.address,
                 shipping_city |-> shippingAddr.city,
                 shipping_country |-> shippingAddr.country,
                 shipping_postcode |-> shippingAddr.postcode,
                 total_order_value |-> amount,
                 currency |-> currency,
                 platform |-> maxInstallment,
                 is_in_frame |-> IF Truthy(isInFrame) THEN PlatformTypeIN_FRAME
                                 ELSE platformType,
                 current_language |-> language,
                 modul_version |-> cfg.moduleVersion,
                 random_nr |-> randomNr,
                 signature |-> Str(signature)]),
             steps |-> checked.steps
                 \o (IF IsNullish(randomNrOverride) THEN <<"generateRandomNumber">> ELSE <<>>)
                 \o <<"generatePaymentSignature">>]

\* createPayment(options): the outcome and the collaborators called, in order
createPayment(cfg, options, generated) ==
    LET built == buildFormData(cfg, options, generated)
    IN IF built.out.kind = "throw" THEN built
       ELSE LET formData == built.out.value
                html == renderAutoSubmitHTML(formData, SHOPIER_ACTION_URL,
                                             Coalesce(options.language, cfg.language))
                hiddenInputs == renderHiddenInputs(formData)
            IN [out |-> Return([html |-> html,
                                formData |-> formData,
                                actionUrl |-> SHOPIER_ACTION_URL,
                                hiddenInputs |-> hiddenInputs]),
                steps |-> built.steps \o <<"renderAutoSubmitHTML", "renderHiddenInputs">>]

\* ----------------------------------------------------- callback verifier

RECURSIVE DigitPrefix(_)
DigitPrefix(s) ==
    IF s # <<>> /\ IsDigit(Head(s)) THEN <<Head(s)>> \o DigitPrefix(Tail(s)) ELSE <<>>

RECURSIVE DigitsValue(_, _)
DigitsValue(acc, s) ==
    IF s = <<>> THEN acc ELSE DigitsValue((acc * 10) + DigitValue(Head(s)), Tail(s))

\* parseInt(value, 10): leading white space, an optional sign, then the
\* longest run of digits; NaN when there is no digit there.
parseInt(value) ==
    LET s == TrimStart(JsToString(value))
        signed == s # <<>> /\ Head(s) \in {"-", "+"}
        digits == DigitPrefix(IF signed THEN Tail(s) ELSE s)
    IN IF digits = <<>> THEN NaN
       ELSE IF signed /\ Head(s) = "-" THEN Integer(0 - DigitsValue(0, digits))
       ELSE Integer(DigitsValue(0, digits))

\* The signed message with its two parts swapped.
CallbackData_orderFirst(body) ==
    JsToString(body.platform_order_id) \o JsToString(body.random_nr)

\* The signed message with a separator between its two parts.
CallbackData_separated(body) ==
    JsToString(body.random_nr) \o <<":">> \o JsToString(body.platform_order_id)

\* `${body.random_nr}${body.platform_order_id}`
CallbackData(body) == JsToString(body.random_nr) \o JsToString(body.platform_order_id)

\* The error tells what was compared.
SignatureFailure_withSignatures(cfg, body) ==
    SignatureValidationError("Callback signature verification failed",
        Object(<<Entry(<<"e", "x", "p", "e", "c", "t", "e", "d">>,
                       Str(generateSignature(cfg.apiSecret.s, CallbackData(body)))),
                 Entry(<<"r", "e", "c", "e", "i", "v", "e", "d">>, body.signature)>>))

\* new SignatureValidationError('Callback signature verification failed')
SignatureFailure(cfg, body) ==
    SignatureValidationError("Callback signature verification failed", NoDetails)

\* The installment passed through as received.
DecodeInstallment_raw(installment) == installment

\* parseInt(body.installment, 10) || 0
DecodeInstallment(installment) == OrElse(parseInt(installment), Integer(0))

\* A callback that reports a failed payment is decoded without verification.
verifyCallback_failedUnverified(cfg, body) ==
    LET data == CallbackData(body)
    IN IF body.status = Str(<<"success">>)
             /\ ~verifySignature(cfg.apiSecret.s, data, body.signature)
       THEN Throw(SignatureFailure(cfg, body))
       ELSE Return([success |-> Bool(body.status = Str(<<"success">>)),
                    orderId |-> body.platform_order_id,
                    paymentId |-> body.payment_id,
                    installment |-> DecodeInstallment(body.installment),
                    platformOrderId |-> body.platform_order_id,
                    status |-> body.status])

verifyCallback(cfg, body) ==
    LET data == CallbackData(body)
    IN IF ~verifySignature(cfg.apiSecret.s, data, body.signature)
       THEN Throw(SignatureFailure(cfg, body))
       ELSE Return([success |-> Bool(body.status = Str(<<"success">>)),
                    orderId |-> body.platform_order_id,
                    paymentId |-> body.payment_id,
                    installment |-> DecodeInstallment(body.installment),
                    platformOrderId |-> body.platform_order_id,
                    status |-> body.status])

\* --------------------------------------- the resolver on its own

\* Credential values a caller writes in the config object, and values of the
\* environment variables: absent, empty, blank, padded and plain.
ConfigCredentials == {Undefined} \cup {Str(s) : s \in SeqsUpTo({" ", "k"}, MaxLen)}
EnvCredentials == {Undefined} \cup {Str(s) : s \in SeqsUpTo({" ", "s"}, MaxLen)}

Envs == [SHOPIER_API_KEY : EnvCredentials, SHOPIER_API_SECRET : EnvCredentials]

ConfigInputs ==
    [apiKey : ConfigCredentials,
     apiSecret : ConfigCredentials,
     language : {Undefined, LanguageEN},
     moduleVersion : {Undefined},
     websiteIndex : {Undefined, Integer(3)}]

ResolveApiKeyCall(configValue) ==
    /\ pc = "idle"
    /\ pc' = "returned"
    /\ op' = "resolveApiKey"
    /\ args' = [configValue |-> configValue]
    /\ out' = Return(resolveApiKey(configValue, env))
    /\ steps' = <<>>
    /\ UNCHANGED <<env, config>>

ResolveApiSecretCall(configValue) ==
    /\ pc = "idle"
    /\ pc' = "returned"
    /\ op' = "resolveApiSecret"
    /\ args' = [configValue |-> configValue]
    /\ out' = Return(resolveApiSecret(configValue, env))
    /\ steps' = <<>>
    /\ UNCHANGED <<env, config>>

ResolveConfigCall(cfg) ==
    /\ pc = "idle"
    /\ pc' = "returned"
    /\ op' = "resolveConfig"
    /\ args' = [config |-> cfg]
    /\ out' = resolveConfig(cfg, env)
    /\ steps' = <<>>
    /\ UNCHANGED <<env, config>>

ValidateConfigCall(cfg) ==
    /\ pc = "idle"
    /\ pc' = "returned"
    /\ op' = "validateConfig"
    /\ args' = [config |-> cfg]
    /\ out' = validateConfig(cfg, env)
    /\ steps' = <<>>
    /\ UNCHANGED <<env, config>>

InitConfig ==
    /\ env \in Envs
    /\ config = NoConfig
    /\ pc = "idle"
    /\ op = "none"
    /\ args = NoArgs
    /\ out = NoOut
    /\ steps = <<>>

NextConfig ==
    \/ \E configValue \in ConfigCredentials : ResolveApiKeyCall(configValue)
    \/ \E configValue \in ConfigCredentials : ResolveApiSecretCall(configValue)
    \/ \E cfg \in ConfigInputs : ResolveConfigCall(cfg)
    \/ \E cfg \in ConfigInputs : ValidateConfigCall(cfg)
    \/ Continue

SpecConfig == InitConfig /\ [][NextConfig]_vars

\* ------------------------------------------------ a Shopier instance

\* Environments and constructor arguments of the instances the model builds.
InstanceEnvs ==
    {NoEnv,
     [SHOPIER_API_KEY |-> Str(<<"e">>), SHOPIER_API_SECRET |-> Str(<<" ", "s">>)]}

InstanceConfigs ==
    {EmptyConfig,
     [apiKey |-> Str(<<"k">>), apiSecret |-> Str(<<"x">>), language |-> LanguageEN,
      moduleVersion |-> Str(<<"2">>), websiteIndex |-> Integer(3)]}

ValidBuyer ==
    [id |-> Str(<<"b", "1">>),
     platformOrderId |-> Undefined,
     productName |-> Str(<<"x">>),
     productType |-> Undefined,
     firstName |-> Str(<<"a">>),
     lastName |-> Str(<<"b">>),
     email |-> Str(<<"a", "@", "b", ".", "x">>),
     phone |-> Str(<<"5", "5", "5", "1", "2", "3", "4">>),
     accountAge |-> Undefined]

RequiredFieldNames == {requiredFields[i] : i \in 1..Len(requiredFields)}

\* Buyers for the checks: one required field (or two) missing, null, empty or
\* blank; an email or a phone of the wrong shape; and padded but valid ones.
CheckedBuyers ==
    {ValidBuyer}
    \cup {[ValidBuyer EXCEPT ![f] = v] :
            f \in RequiredFieldNames, v \in {Undefined, Null, Str(<<>>), Str(<<" ">>)}}
    \cup {[ValidBuyer EXCEPT !.id = Undefined, !.email = Str(<<" ">>)],
          [ValidBuyer EXCEPT !.phone = Null, !.email = Str(<<"a", "@", "b">>)],
          [ValidBuyer EXCEPT !.email = Str(<<"a", "@", "b">>)],
          [ValidBuyer EXCEPT !.email = Str(<<"a", " ", "@", "b", ".", "x">>)],
          [ValidBuyer EXCEPT !.email = Str(<<" ", "a", "@", "b", ".", "x", " ">>)],
          [ValidBuyer EXCEPT !.email = Integer(5)],
          [ValidBuyer EXCEPT !.phone = Str(<<"5", "5", "5", "1", "2", "3">>)],
          [ValidBuyer EXCEPT !.phone = Str(<<"+", "5", "5", "5", "-", "1", "2", "3", "4">>)],
          [ValidBuyer EXCEPT !.phone = Str(<<"5", "5", "5", "1", "2", "3", "x">>)]}

\* Buyers for the assembly: all valid, with the optional fields and with
\* characters that HTML escapes.
AssembledBuyers ==
    {ValidBuyer,
     [ValidBuyer EXCEPT !.platformOrderId = Str(<<"o", "9">>)],
     [ValidBuyer EXCEPT !.platformOrderId = Str(<<>>)],
     [ValidBuyer EXCEPT !.productType = Integer(1), !.accountAge = Integer(30)],
     [ValidBuyer EXCEPT !.firstName = Str(<<"<", "a", "&">>), !.lastName = Str(<<"\"", "'">>)]}

CheckedAmounts ==
    {Num(9999), Num(9990), Integer(100), Integer(0), Num(0 - 1), NaN, PosInfinity,
     NegInfinity, Str(<<"5">>)}

CheckedInstallments ==
    {Undefined, Num(150), NaN} \cup {Integer(n) : n \in (0 - 1)..MaxInstallmentTried}

Address(a, c, k, p) ==
    [t |-> "object", address |-> Str(a), city |-> Str(c), country |-> Str(k),
     postcode |-> Str(p)]

BillingAddresses == {Undefined, Address(<<"a">>, <<"b">>, <<"k">>, <<"1">>)}
ShippingAddresses == {Undefined, Address(<<"s">>, <<"m">>, <<"x">>, <<"2">>)}

\* Options left out of a call.
NoOptions ==
    [amount |-> Undefined, buyer |-> ValidBuyer, billing |-> Undefined,
     shipping |-> Undefined, currency |-> Undefined, maxInstallment |-> Undefined,
     language |-> Undefined, productType |-> Undefined, platformType |-> Undefined,
     websiteIndex |-> Undefined, isInFrame |-> Undefined, randomNr |-> Undefined]

\* The options that only pass through, left out or given together.
PassedOptions ==
    {[currency |-> Undefined, maxInstallment |-> Undefined, language |-> Undefined,
      productType |-> Undefined, platformType |-> Undefined, websiteIndex |-> Undefined,
      isInFrame |-> Undefined],
     [currency |-> Integer(1), maxInstallment |-> Integer(3), language |-> LanguageEN,
      productType |-> Integer(2), platformType |-> PlatformTypeIN_FRAME,
      websiteIndex |-> Integer(5), isInFrame |-> Bool(FALSE)],
     [currency |-> Integer(2), maxInstallment |-> Integer(0), language |-> LanguageTR,
      productType |-> Undefined, platformType |-> Undefined, websiteIndex |-> Undefined,
      isInFrame |-> Bool(TRUE)]}

RandomNrOverrides ==
    {Undefined, Integer(123456), Integer(0), Integer(0 - 5), Num(150), NaN}

\* Calls that exercise the checks: every amount, buyer and installment count,
\* everything else left out.
CheckedOptions ==
    {[NoOptions EXCEPT !.amount = a, !.buyer = b, !.maxInstallment = i] :
        a \in CheckedAmounts, b \in CheckedBuyers, i \in CheckedInstallments}

\* Calls that pass the checks and exercise the assembly of the field set.
AssembledOptions ==
    {[amount |-> a, buyer |-> b, billing |-> bill, shipping |-> ship,
      currency |-> d.currency, maxInstallment |-> d.maxInstallment,
      language |-> d.language, productType |-> d.productType,
      platformType |-> d.platformType, websiteIndex |-> d.websiteIndex,
      isInFrame |-> d.isInFrame, randomNr |-> r] :
        a \in {Num(9999), Num(9990)}, b \in AssembledBuyers, bill \in BillingAddresses,
        ship \in ShippingAddresses, d \in PassedOptions, r \in RandomNrOverrides}

PaymentOptions == CheckedOptions \cup AssembledOptions

\* Callback bodies.  The nonces and order ids are such that two different
\* pairs can give one signed message ("12" + "34" and "123" + "4").
CallbackNonces == {Str(<<"1", "2">>), Str(<<"1", "2", "3">>), Undefined}
CallbackOrderIds == {Str(<<"3", "4">>), Str(<<"4">>), Str(<<"b", "1">>)}
CallbackStatuses == {Str(<<"success">>), Str(<<"failed">>), Str(<<"success", " ">>), Undefined}
CallbackInstallments ==
    {Undefined} \cup {Str(s) : s \in SeqsUpTo({"0", "7", " ", "-", "x"}, MaxLen)}

CallbackSignatures(cfg, nonce, orderId) ==
    {Str(generateSignature(cfg.apiSecret.s, JsToString(n) \o JsToString(o))) :
        n \in CallbackNonces, o \in CallbackOrderIds}
    \cup {Str(generateSignature(<<"z">>, JsToString(nonce) \o JsToString(orderId))),
          Str(generateSignature(cfg.apiSecret.s, JsToString(nonce) \o JsToString(orderId))
                  \o <<"=">>),
          Str(<<"w", "r", "o", "n", "g">>), Str(<<>>), Undefined}

\* Bodies that exercise the signature check.
SignedBodies(cfg) ==
    UNION {{[random_nr |-> n, platform_order_id |-> o, payment_id |-> Str(<<"p", "1">>),
             installment |-> Str(<<"3">>), status |-> st, signature |-> sig] :
               sig \in CallbackSignatures(cfg, n, o),
               st \in {Str(<<"success">>), Str(<<"failed">>)}} :
           n \in CallbackNonces, o \in CallbackOrderIds}

\* Bodies with the right signature that exercise the decoding.
DecodedBodies(cfg) ==
    {[random_nr |-> Str(<<"1", "2">>), platform_order_id |-> Str(<<"b", "1">>),
      payment_id |-> p, installment |-> i, status |-> st,
      signature |-> Str(generateSignature(cfg.apiSecret.s, <<"1", "2", "b", "1">>))] :
        p \in {Str(<<"p", "1">>), Undefined}, i \in CallbackInstallments,
        st \in CallbackStatuses}

CallbackBodies(cfg) == SignedBodies(cfg) \cup DecodedBodies(cfg)

\* new Shopier(cfg)
Construct(cfg) ==
    /\ pc = "new"
    /\ LET resolved == resolveConfig(cfg, env)
       IN IF resolved.kind = "throw"
          THEN /\ pc' = "failed"
               /\ out' = resolved
               /\ config' = config
          ELSE /\ pc' = "returned"
               /\ out' = Ok
               /\ config' = resolved.value
    /\ op' = "new Shopier"
    /\ args' = [config |-> cfg]
    /\ steps' = <<"resolveConfig">>
    /\ UNCHANGED env

\* shopier.createPayment(options)
CreatePayment(options, generated) ==
    /\ pc = "idle"
    /\ LET result == createPayment(config, options, generated)
       IN /\ out' = result.out
          /\ steps' = result.steps
    /\ pc' = "returned"
    /\ op' = "createPayment"
    /\ args' = [options |-> options]
    /\ UNCHANGED <<env, config>>

\* shopier.verifyCallback(body)
VerifyCallback(body) ==
    /\ pc = "idle"
    /\ pc' = "returned"
    /\ op' = "verifyCallback"
    /\ args' = [body |-> body]
    /\ out' = verifyCallback(config, body)
    /\ steps' = <<"verifySignature">>
    /\ UNCHANGED <<env, config>>

Init ==
    /\ env \in InstanceEnvs
    /\ config = NoConfig
    /\ pc = "new"
    /\ op = "none"
    /\ args = NoArgs
    /\ out = NoOut
    /\ steps = <<>>

\* What generateRandomNumber() can return in a call with these options; it is
\* called only when the checks pass and no override is given.
Generated(options) ==
    IF IsNullish(options.randomNr) /\ validateInputs(options).out.kind = "return"
    THEN generateRandomNumber
    ELSE {MIN_RANDOM}

Next ==
    \/ \E cfg \in InstanceConfigs : Construct(cfg)
    \/ \E options \in PaymentOptions :
          \E generated \in Generated(options) : CreatePayment(options, generated)
    \/ /\ pc = "idle"
       /\ \E body \in CallbackBodies(config) : VerifyCallback(body)
    \/ Continue

Spec == Init /\ [][Next]_vars

\* ------------------------------------------- the validators on their own

\* Amounts: the numbers of every kind and values that are not numbers.
AmountInputs ==
    CheckedAmounts
    \cup {Num(1), Integer(0 - 100), Undefined, Null, Bool(TRUE), Str(<<>>),
          Array(<<>>), Array(<<Integer(5)>>), Object(<<>>),
          Object(<<Entry(<<"v", "a", "l", "u", "e">>, Integer(5))>>)}

\* Installment counts: integers around 0..12, fractions, the values that are
\* no finite number and values that are not numbers.
InstallmentInputs ==
    CheckedInstallments
    \cup {Num(1250), Num(0 - 50), Num(50), PosInfinity, NegInfinity, Null,
          Str(<<"3">>), Str(<<"0">>), Array(<<Integer(3)>>)}

\* Buyers: every required field present, absent or blank, independently, and
\* the buyers of the payment calls.
BuyerInputs ==
    CheckedBuyers
    \cup {[f \in DOMAIN ValidBuyer |->
              IF f \in RequiredFieldNames /\ f \in absent THEN Undefined
              ELSE IF f \in RequiredFieldNames /\ f \in blank THEN Str(<<" ", " ">>)
              ELSE ValidBuyer[f]] :
            absent \in SUBSET RequiredFieldNames, blank \in SUBSET RequiredFieldNames}
    \cup {[ValidBuyer EXCEPT !.id = Null, !.email = Str(<<"a", "@", "b">>),
                             !.phone = Str(<<"1">>)],
          [ValidBuyer EXCEPT !.email = Str(<<"a", "@", "b">>), !.phone = Str(<<"1">>)]}

\* Payment calls whose amount and installment count range over the same
\* values, with a valid buyer.
ValidatedOptions ==
    {[NoOptions EXCEPT !.amount = a, !.maxInstallment = i] :
        a \in AmountInputs, i \in InstallmentInputs}

ValidateAmountCall(amount) ==
    /\ pc = "idle"
    /\ pc' = "returned"
    /\ op' = "validateAmount"
    /\ args' = [amount |-> amount]
    /\ out' = validateAmount(amount)
    /\ steps' = <<>>
    /\ UNCHANGED <<env, config>>

ValidateBuyerCall(buyer) ==
    /\ pc = "idle"
    /\ pc' = "returned"
    /\ op' = "validateBuyer"
    /\ args' = [buyer |-> buyer]
    /\ out' = validateBuyer(buyer)
    /\ steps' = <<>>
    /\ UNCHANGED <<env, config>>

\* Phones: digits alone at and around both limits, with separators, with a
\* plus sign at the head and inside, with a letter, and values of other types.
PhoneInputs ==
    {Str(s) : s \in {<<"5", "5", "5", "1", "2", "3", "4">>,
                     <<"5", "5", "5", "1", "2", "3">>,
                     <<"1", "2", "3", "4", "5", "6", "7", "8", "9", "0", "1", "2", "3", "4", "5">>,
                     <<"1", "2", "3", "4", "5", "6", "7", "8", "9", "0", "1", "2", "3", "4", "5", "6">>,
                     <<"+", "5", "5", "5", "1", "2", "3", "4">>,
                     <<"5", "5", "5", "+", "1", "2", "3", "4">>,
                     <<"5", "5", "5", "1", "2", "3", "4", "+">>,
                     <<"+", "+", "5", "5", "5", "1", "2", "3", "4">>,
                     <<"(", "5", "5", "5", ")", " ", "1", "2", "3", "-", "4">>,
                     <<"+", "5", "5", " ", "(", "5", ")", " ", "1", "2", "-", "3">>,
                     <<"5", "5", "5", "1", "2", "3", "x">>,
                     <<"5", "5", "5", ".", "1", "2", "3", "4">>,
                     <<"+", "-", "(", ")", " ">>,
                     <<" ">>,
                     <<>>}}
    \cup {Undefined, Null, Integer(5551234), Bool(TRUE)}

ValidatePhoneCall(phone) ==
    /\ pc = "idle"
    /\ pc' = "returned"
    /\ op' = "validatePhone"
    /\ args' = [phone |-> phone]
    /\ out' = Return(Bool(validatePhone(phone)))
    /\ steps' = <<>>
    /\ UNCHANGED <<env, config>>

ValidateInstallmentCall(installment) ==
    /\ pc = "idle"
    /\ pc' = "returned"
    /\ op' = "validateInstallment"
    /\ args' = [installment |-> installment]
    /\ out' = validateInstallment(installment)
    /\ steps' = <<>>
    /\ UNCHANGED <<env, config>>

\* A Shopier instance constructed from explicit credentials.
InitChecks ==
    /\ env = NoEnv
    /\ config = resolveConfig([EmptyConfig EXCEPT !.apiKey = Str(<<"k">>),
                                                  !.apiSecret = Str(<<"x">>)], NoEnv).value
    /\ pc = "idle"
    /\ op = "none"
    /\ args = NoArgs
    /\ out = NoOut
    /\ steps = <<>>

NextChecks ==
    \/ \E amount \in AmountInputs : ValidateAmountCall(amount)
    \/ \E buyer \in BuyerInputs : ValidateBuyerCall(buyer)
    \/ \E phone \in PhoneInputs : ValidatePhoneCall(phone)
    \/ \E installment \in InstallmentInputs : ValidateInstallmentCall(installment)
    \/ \E options \in ValidatedOptions :
          \E generated \in Generated(options) : CreatePayment(options, generated)
    \/ Continue

SpecChecks == InitChecks /\ [][NextChecks]_vars

\* ------------------------------------- escaping and redaction on their own

\* Inputs of escapeHtml: every short string over the five special characters
\* and two plain ones, longer strings that look like entities or markup, and
\* values that are not strings.
EscapeInputs ==
    {Str(s) : s \in SeqsUpTo({"&", "<", ">", "\"", "'", "a", ";"}, MaxLen)}
    \cup {Str(<<"&", "l", "t", ";">>), Str(<<"&", "a", "m", "p", ";", "&">>),
          Str(<<"<", "b", ">", "'", "x", "\"", "<", "/", "b", ">">>),
          Str(<<"a", "b", " ", "c">>), Undefined, Integer(5)}

\* Keys of error details: the sensitive names, in other cases and inside
\* longer keys, and keys that hold none of them.
DetailKeys ==
    {SENSITIVE_FIELDS[i] : i \in 1..Len(SENSITIVE_FIELDS)}
    \cup {<<"E", "M", "a", "i", "l">>, <<"u", "s", "e", "r", "P", "h", "o", "n", "e", "2">>,
          <<"A", "P", "I", "K", "E", "Y">>, <<"a", "p", "i", "_", "k", "e", "y">>,
          <<"T", "o", "k", "e", "n", "s">>, <<"t", "o", "k">>, <<"f", "i", "e", "l", "d">>,
          <<"m", "i", "s", "s", "i", "n", "g", "F", "i", "e", "l", "d", "s">>, <<>>}

DetailValues ==
    {Str(<<"v">>), Integer(5), Undefined,
     Object(<<Entry(<<"e", "m", "a", "i", "l">>, Str(<<"v">>))>>)}

\* Details objects: none, empty, one entry of every key, and pairs in which a
\* sensitive entry stands before or after a plain one.
DetailObjects ==
    {NoDetails, Object(<<>>)}
    \cup {Object(<<Entry(k, v)>>) : k \in DetailKeys, v \in DetailValues}
    \cup {Object(<<Entry(<<"f", "i", "e", "l", "d">>, Str(<<"email">>)), Entry(k, Str(<<"v">>))>>) :
            k \in {<<"v", "a", "l", "u", "e">>, <<"t", "o", "k">>}}
    \cup {Object(<<Entry(<<"s", "e", "c", "r", "e", "t">>, Str(<<"v">>)),
                   Entry(<<"t", "o", "k">>, Integer(5))>>)}

\* Errors of the four kinds.
ErrorObjects ==
    {ValidationError("m", d) : d \in DetailObjects}
    \cup {ShopierError("ShopierError", "m", "CODE", d) :
            d \in {NoDetails, Object(<<Entry(<<"a", "p", "i", "K", "e", "y">>, Str(<<"v">>))>>)}}
    \cup {InvalidApiKeyError("API key is missing or empty"),
          InvalidApiSecretError("API secret is missing or empty"),
          SignatureValidationError("Callback signature verification failed", NoDetails)}

EscapeHtmlCall(input) ==
    /\ pc = "idle"
    /\ pc' = "returned"
    /\ op' = "escapeHtml"
    /\ args' = [input |-> input]
    /\ out' = Return(Str(escapeHtml(input)))
    /\ steps' = <<>>
    /\ UNCHANGED <<env, config>>

\* error.getSafeDetails(), the error being the object held in config
GetSafeDetailsCall ==
    /\ pc = "idle"
    /\ pc' = "returned"
    /\ op' = "getSafeDetails"
    /\ args' = NoArgs
    /\ out' = Return(getSafeDetails(config))
    /\ steps' = <<>>
    /\ UNCHANGED <<env, config>>

\* error.toSafeJSON()
ToSafeJSONCall ==
    /\ pc = "idle"
    /\ pc' = "returned"
    /\ op' = "toSafeJSON"
    /\ args' = NoArgs
    /\ out' = Return(toSafeJSON(config))
    /\ steps' = <<"getSafeDetails">>
    /\ UNCHANGED <<env, config>>

\* An error has been constructed and caught; config holds it.
InitText ==
    /\ env = NoEnv
    /\ config \in ErrorObjects
    /\ pc = "idle"
    /\ op = "none"
    /\ args = NoArgs
    /\ out = NoOut
    /\ steps = <<>>

NextText ==
    \/ \E input \in EscapeInputs : EscapeHtmlCall(input)
    \/ GetSafeDetailsCall
    \/ ToSafeJSONCall
    \/ Continue

SpecText == InitText /\ [][NextText]_vars

\* ------------------------------------- one instance called again and again

\* The number of calls made on the instance.
MaxCalls == 3

\* Notifications: two signed with the instance's secret and one that is not.
ReplayedBodies(cfg) ==
    {[random_nr |-> Str(<<"1", "2">>), platform_order_id |-> Str(<<"b", "1">>),
      payment_id |-> Str(<<"p", "1">>), installment |-> Str(<<"3">>),
      status |-> Str(<<"success">>), signature |-> sig] :
        sig \in {Str(generateSignature(cfg.apiSecret.s, <<"1", "2", "b", "1">>)),
                 Str(<<"w", "r", "o", "n", "g">>)}}
    \cup {[random_nr |-> Str(<<"1", "2", "3">>), platform_order_id |-> Str(<<"4">>),
           payment_id |-> Str(<<"p", "2">>), installment |-> Str(<<"x">>),
           status |-> Str(<<"failed">>),
           signature |-> Str(generateSignature(cfg.apiSecret.s, <<"1", "2", "3", "4">>))]}

\* Payments with and without a nonce of the caller's.
ReplayedOptions ==
    {[NoOptions EXCEPT !.amount = Num(9990), !.randomNr = r] :
        r \in {Undefined, Integer(123456)}}

\* The caller's record of a call: what was called, with what, and the outcome.
Logged(name, arguments, outcome) == [op |-> name, args |-> arguments, out |-> outcome]

\* A notification that was accepted before is refused as a duplicate.
LoggedVerifyCallback_onceOnly(body) ==
    LET seen == \E i \in 1..Len(steps) :
                    /\ steps[i].op = "verifyCallback"
                    /\ steps[i].args = body
                    /\ steps[i].out.kind = "return"
        outcome == IF seen
                   THEN Throw(SignatureValidationError(
                                  "Callback signature verification failed", NoDetails))
                   ELSE verifyCallback(config, body)
    IN /\ pc = "idle"
       /\ Len(steps) < MaxCalls
       /\ pc' = "returned"
       /\ op' = "verifyCallback"
       /\ args' = [body |-> body]
       /\ out' = outcome
       /\ steps' = Append(steps, Logged("verifyCallback", body, outcome))
       /\ UNCHANGED <<env, config>>

\* shopier.verifyCallback(body), the caller keeping a log in steps
LoggedVerifyCallback(body) ==
    /\ pc = "idle"
    /\ Len(steps) < MaxCalls
    /\ pc' = "returned"
    /\ op' = "verifyCallback"
    /\ args' = [body |-> body]
    /\ out' = verifyCallback(config, body)
    /\ steps' = Append(steps, Logged("verifyCallback", body, verifyCallback(config, body)))
    /\ UNCHANGED <<env, config>>

\* shopier.createPayment(options), the caller keeping a log in steps
LoggedCreatePayment(options, generated) ==
    /\ pc = "idle"
    /\ Len(steps) < MaxCalls
    /\ pc' = "returned"
    /\ op' = "createPayment"
    /\ args' = [options |-> options]
    /\ out' = createPayment(config, options, generated).out
    /\ steps' = Append(steps, Logged("createPayment", options,
                                     createPayment(config, options, generated).out))
    /\ UNCHANGED <<env, config>>

\* The caller goes on to its next call; the log stays.
Resume ==
    /\ pc = "returned"
    /\ pc' = "idle"
    /\ op' = "none"
    /\ args' = NoArgs
    /\ out' = NoOut
    /\ UNCHANGED <<env, config, steps>>

\* An instance constructed from the environment's credentials.
InitReplay ==
    /\ env = [SHOPIER_API_KEY |-> Str(<<"e">>), SHOPIER_API_SECRET |-> Str(<<" ", "s">>)]
    /\ config = resolveConfig(EmptyConfig, env).value
    /\ pc = "idle"
    /\ op = "none"
    /\ args = NoArgs
    /\ out = NoOut
    /\ steps = <<>>

NextReplay ==
    \/ \E body \in ReplayedBodies(config) : LoggedVerifyCallback(body)
    \/ \E options \in ReplayedOptions :
          \E generated \in Generated(options) : LoggedCreatePayment(options, generated)
    \/ Resume

SpecReplay == InitReplay /\ [][NextReplay]_vars

\* ----------------------------------------------------- a ConfigManager

\* manager.updateConfig(updates) on the configuration cfg: the outcome and the
\* configuration the manager holds afterwards.  The fields are written one
\* after the other, so a throw leaves the earlier writes in place.
updateConfig(cfg, updates, e) ==
    LET apiKey == resolveApiKey(updates.apiKey, e)
        apiSecret == resolveApiSecret(updates.apiSecret, e)
        withKey == IF updates.apiKey # Undefined THEN [cfg EXCEPT !.apiKey = apiKey] ELSE cfg
        withSecret == IF updates.apiSecret # Undefined
                      THEN [withKey EXCEPT !.apiSecret = apiSecret] ELSE withKey
        withLanguage == IF updates.language # Undefined
                        THEN [withSecret EXCEPT !.language = updates.language]
                        ELSE withSecret
        withVersion == IF updates.moduleVersion # Undefined
                       THEN [withLanguage EXCEPT !.moduleVersion = updates.moduleVersion]
                       ELSE withLanguage
        withIndex == IF updates.websiteIndex # Undefined
                     THEN [withVersion EXCEPT !.websiteIndex = updates.websiteIndex]
                     ELSE withVersion
    IN IF updates.apiKey # Undefined /\ ~Truthy(apiKey)
       THEN [out |-> Throw(InvalidApiKeyError("API key is missing or empty")),
             config |-> cfg]
       ELSE IF updates.apiSecret # Undefined /\ ~Truthy(apiSecret)
       THEN [out |-> Throw(InvalidApiSecretError("API secret is missing or empty")),
             config |-> withKey]
       ELSE [out |-> Ok, config |-> withIndex]

\* Environments of a manager: each variable set or not.
ManagerEnvs ==
    [SHOPIER_API_KEY : {Undefined, Str(<<"e">>)},
     SHOPIER_API_SECRET : {Undefined, Str(<<" ", "s">>)}]

\* Credentials in an update: left out, empty, blank, plain and padded.
UpdateCredentials ==
    {Undefined, Str(<<>>), Str(<<" ">>), Str(<<" ", " ">>), Str(<<"n">>),
     Str(<<" ", "n", " ">>)}

\* Updates: each credential on its own, the other fields left out or given.
Updates ==
    {[apiKey |-> k, apiSecret |-> s, language |-> o.language,
      moduleVersion |-> o.moduleVersion, websiteIndex |-> o.websiteIndex] :
        k \in UpdateCredentials, s \in UpdateCredentials,
        o \in {[language |-> Undefined, moduleVersion |-> Undefined,
                websiteIndex |-> Undefined],
               [language |-> LanguageEN, moduleVersion |-> Str(<<"3">>),
                websiteIndex |-> Integer(2)]}}

\* new ConfigManager(cfg)
ConstructManager(cfg) ==
    /\ pc = "new"
    /\ LET resolved == resolveConfig(cfg, env)
       IN IF resolved.kind = "throw"
          THEN /\ pc' = "failed"
               /\ out' = resolved
               /\ config' = config
          ELSE /\ pc' = "returned"
               /\ out' = Ok
               /\ config' = resolved.value
    /\ op' = "new ConfigManager"
    /\ args' = [config |-> cfg]
    /\ steps' = <<"resolveConfig">>
    /\ UNCHANGED env

\* manager.updateConfig(updates)
UpdateConfig(updates) ==
    /\ pc = "idle"
    /\ pc' = "returned"
    /\ op' = "updateConfig"
    /\ args' = [updates |-> updates]
    /\ out' = updateConfig(config, updates, env).out
    /\ config' = updateConfig(config, updates, env).config
    /\ steps' = <<>>
    /\ UNCHANGED env

\* manager.getApiKey()
GetApiKey ==
    /\ pc = "idle"
    /\ pc' = "returned"
    /\ op' = "getApiKey"
    /\ args' = NoArgs
    /\ out' = Return(config.apiKey)
    /\ steps' = <<>>
    /\ UNCHANGED <<env, config>>

\* manager.getApiSecret()
GetApiSecret ==
    /\ pc = "idle"
    /\ pc' = "returned"
    /\ op' = "getApiSecret"
    /\ args' = NoArgs
    /\ out' = Return(config.apiSecret)
    /\ steps' = <<>>
    /\ UNCHANGED <<env, config>>

\* manager.getConfig(): a copy of the configuration
GetConfig ==
    /\ pc = "idle"
    /\ pc' = "returned"
    /\ op' = "getConfig"
    /\ args' = NoArgs
    /\ out' = Return(config)
    /\ steps' = <<>>
    /\ UNCHANGED <<env, config>>

InitManager ==
    /\ env \in ManagerEnvs
    /\ config = NoConfig
    /\ pc = "new"
    /\ op = "none"
    /\ args = NoArgs
    /\ out = NoOut
    /\ steps = <<>>

NextManager ==
    \/ \E cfg \in InstanceConfigs : ConstructManager(cfg)
    \/ \E updates \in Updates : UpdateConfig(updates)
    \/ GetApiKey
    \/ GetApiSecret
    \/ GetConfig
    \/ Continue

SpecManager == InitManager /\ [][NextManager]_vars

\* ------------------------- callbacks that differ outside the signed message

\* Callbacks for one nonce and order, rightly or wrongly signed, that differ
\* in status, payment id and installment.
TwinBodies(cfg) ==
    {[random_nr |-> Str(<<"1", "2">>), platform_order_id |-> Str(<<"b", "1">>),
      payment_id |-> rest.payment_id, installment |-> rest.installment,
      status |-> rest.status, signature |-> sig] :
        sig \in {Str(generateSignature(cfg.apiSecret.s, <<"1", "2", "b", "1">>)),
                 Str(generateSignature(<<"z">>, <<"1", "2", "b", "1">>))},
        rest \in {[payment_id |-> Str(<<"p", "1">>), installment |-> Str(<<"3">>),
                   status |-> Str(<<"success">>)],
                  [payment_id |-> Str(<<"p", "1">>), installment |-> Str(<<"3">>),
                   status |-> Str(<<"failed">>)],
                  [payment_id |-> Str(<<"p", "2">>), installment |-> Str(<<"x">>),
                   status |-> Str(<<"success">>)],
                  [payment_id |-> Undefined, installment |-> Undefined,
                   status |-> Undefined]}}

NextTwin ==
    \/ \E body \in TwinBodies(config) : LoggedVerifyCallback(body)
    \/ Resume

SpecTwin == InitReplay /\ [][NextTwin]_vars

\* =============================================================== claims

Called(name) == pc = "returned" /\ op = name

\* --------------------------------------------------------------- C1

\* generateSignature(apiSecret, body.random_nr ++ body.platform_order_id)
ExpectedCallbackSignature ==
    Str(generateSignature(config.apiSecret.s,
            JsToString(args.body.random_nr) \o JsToString(args.body.platform_order_id)))

\* C1: verifyCallback returns a result exactly when body.signature equals
\* generateSignature(apiSecret, body.random_nr ++ body.platform_order_id);
\* in every other case it throws SignatureValidationError (code
\* SIGNATURE_VALIDATION_ERROR) and returns nothing.
C1_VerifyCallback ==
    Called("verifyCallback") =>
        IF args.body.signature = ExpectedCallbackSignature
        THEN out.kind = "return"
        ELSE /\ out.kind = "throw"
             /\ out.error.name = "SignatureValidationError"
             /\ out.error.code = "SIGNATURE_VALIDATION_ERROR"

\* A callback signed for the same nonce and order with another secret has
\* been rejected.
C1_Witness ==
    /\ Called("verifyCallback")
    /\ out.kind = "throw"
    /\ args.body.signature =
          Str(generateSignature(<<"z">>,
                  JsToString(args.body.random_nr) \o JsToString(args.body.platform_order_id)))

\* --------------------------------------------------------------- C2

\* What an installment value parses to, read off its text: white space, an
\* optional sign, then digits; the digits written without their leading
\* zeros are the decimal form of the number.
InstallmentParsed(value) ==
    LET s == JsToString(value)
        inked == {i \in 1..Len(s) : ~IsWhitespace(s[i])}
        start == IF inked = {} THEN Len(s) + 1 ELSE CHOOSE i \in inked : \A j \in inked : i <= j
        signed == start <= Len(s) /\ s[start] \in {"-", "+"}
        from == IF signed THEN start + 1 ELSE start
        ends == {j \in (from - 1)..Len(s) : \A k \in from..j : IsDigit(s[k])}
        to == CHOOSE j \in ends : \A k \in ends : k <= j
        significant == {k \in from..to : s[k] # "0"}
        lead == IF significant = {} THEN to
                ELSE CHOOSE k \in significant : \A m \in significant : k <= m
        n == CHOOSE m \in 0..(10 ^ (to - from + 1)) : NatToString(m) = SubSeq(s, lead, to)
    IN IF to < from THEN Integer(0)
       ELSE IF signed /\ s[start] = "-" THEN Integer(0 - n)
       ELSE Integer(n)

\* C2: for every accepted callback the result is exactly success = (status
\* is 'success'), orderId = platformOrderId = platform_order_id, paymentId =
\* payment_id, status = status and installment = the integer parsed from the
\* installment string, or 0 when it does not parse; decoding never throws.
C2_CallbackResult ==
    (Called("verifyCallback") /\ args.body.signature = ExpectedCallbackSignature) =>
        out = Return([success |-> Bool(args.body.status = Str(<<"success">>)),
                      orderId |-> args.body.platform_order_id,
                      platformOrderId |-> args.body.platform_order_id,
                      paymentId |-> args.body.payment_id,
                      status |-> args.body.status,
                      installment |-> InstallmentParsed(args.body.installment)])

\* An accepted callback whose installment does not parse, and one that is
\* not a success, has been decoded.
C2_Witness ==
    /\ Called("verifyCallback")
    /\ out.kind = "return"
    /\ args.body.installment = Str(<<"x", "7">>)
    /\ args.body.status = Str(<<"failed">>)
    /\ out.value.installment = Integer(0)
    /\ out.value.success = Bool(FALSE)

\* --------------------------------------------------------------- C3

DetailEntries(details) ==
    IF details.t = "object" THEN {details.entries[i] : i \in 1..Len(details.entries)}
    ELSE {}

\* C3: the SignatureValidationError thrown by verifyCallback exposes neither
\* the received nor the expected signature: its details hold no expected or
\* received entry and no entry with either signature as its value, and so
\* does its toSafeJSON projection, whose message is the fixed text.
C3_NoSignatureInError ==
    (Called("verifyCallback") /\ out.kind = "throw") =>
        /\ \A e \in DetailEntries(out.error.details)
                    \cup DetailEntries(toSafeJSON(out.error).details) :
              /\ e.key \notin {<<"e", "x", "p", "e", "c", "t", "e", "d">>,
                               <<"r", "e", "c", "e", "i", "v", "e", "d">>}
              /\ e.value \notin {args.body.signature, ExpectedCallbackSignature}
        /\ toSafeJSON(out.error).message = "Callback signature verification failed"
        /\ toSafeJSON(out.error).name = "SignatureValidationError"
        /\ toSafeJSON(out.error).code = "SIGNATURE_VALIDATION_ERROR"

\* The callback signed "wrong" has been rejected.
C3_Witness ==
    /\ Called("verifyCallback")
    /\ out.kind = "throw"
    /\ args.body.signature = Str(<<"w", "r", "o", "n", "g">>)

\* ---------------------------------------------------------------- C4

VerifySignatureDone == pc = "returned" /\ op = "verifySignature"

\* The key and message bytes HMAC sees for a secret and a message.
SignedBytes(secret, data) == <<HmacKey(Utf8(secret)), Utf8(data)>>

NonBlank(v) == IsStr(v) /\ \E i \in 1..Len(v.s) : ~IsWhitespace(v.s[i])

\* A non-blank string from its first to its last unit that is not white space.
Trimmed(v) ==
    LET inked == {i \in 1..Len(v.s) : ~IsWhitespace(v.s[i])}
        first == CHOOSE i \in inked : \A j \in inked : i <= j
        last == CHOOSE i \in inked : \A j \in inked : j <= i
    IN Str(SubSeq(v.s, first, last))

ResolvedAs(explicit, fromEnv) ==
    IF NonBlank(explicit) THEN Trimmed(explicit)
    ELSE IF NonBlank(fromEnv) THEN Trimmed(fromEnv)
    ELSE Undefined

\* C10: each credential resolves to the explicit config value trimmed when it
\* is non-blank, otherwise to the environment variable's value trimmed when
\* that is non-blank, otherwise to undefined; an explicit non-blank value wins
\* over the environment value.
C10_CredentialResolution ==
    /\ (pc = "returned" /\ op = "resolveApiKey") =>
          out = Return(ResolvedAs(args.configValue, env.SHOPIER_API_KEY))
    /\ (pc = "returned" /\ op = "resolveApiSecret") =>
          out = Return(ResolvedAs(args.configValue, env.SHOPIER_API_SECRET))

\* A padded explicit key has won over a non-blank environment key.
C10_Witness ==
    /\ pc = "returned"
    /\ op = "resolveApiKey"
    /\ NonBlank(args.configValue)
    /\ NonBlank(env.SHOPIER_API_KEY)
    /\ args.configValue.s # Trim(args.configValue.s)
    /\ out = Return(Str(<<"k">>))

\* --------------------------------------------------------------- C5

Created == Called("createPayment") /\ out.kind = "return"

\* C5: in every field set createPayment returns, signature =
\* generateSignature(apiSecret, random_nr ++ platform_order_id ++
\* total_order_value ++ currency), the four values being those of the same
\* field set, concatenated in that order without separators.
C5_PaymentSignature ==
    Created =>
        LET fd == out.value.formData
        IN fd.signature =
              Str(generateSignature(config.apiSecret.s,
                      JsToString(fd.random_nr) \o JsToString(fd.platform_order_id)
                          \o JsToString(fd.total_order_value) \o JsToString(fd.currency)))

\* A payment of 99.90 in USD with its own order id and a generated nonce has
\* been signed.
C5_Witness ==
    /\ Created
    /\ args.options.randomNr = Undefined
    /\ out.value.formData.total_order_value = Num(9990)
    /\ out.value.formData.currency = Integer(1)
    /\ out.value.formData.platform_order_id = Str(<<"o", "9">>)

\* --------------------------------------------------------- C6 and C7

AmountValid(amount) == IsNum(amount) /\ amount.k = "finite" /\ amount.h > 0

BuyerValid(buyer) == validateBuyer(buyer) = Ok

\* The installment count is checked when it is given and is not zero.
InstallmentChecked(maxInstallment) ==
    maxInstallment # Undefined /\ maxInstallment # Integer(0)

InstallmentValid(maxInstallment) ==
    \E n \in 0..12 : maxInstallment = Integer(n)

InputsValid(options) ==
    /\ AmountValid(options.amount)
    /\ BuyerValid(options.buyer)
    /\ InstallmentChecked(options.maxInstallment) => InstallmentValid(options.maxInstallment)

ValidatorSteps == {"validateAmount", "validateBuyer", "validateInstallment"}

\* C6: when a validation inside createPayment fails (amount, buyer, or a
\* non-zero installment), the call ends with a ValidationError and nothing
\* else happens: no nonce drawn, no signature computed, no field set
\* returned, no renderer invoked.
C6_ValidationAborts ==
    (Called("createPayment") /\ ~InputsValid(args.options)) =>
        /\ out.kind = "throw"
        /\ out.error.name = "ValidationError"
        /\ \A k \in 1..Len(steps) : steps[k] \in ValidatorSteps

\* A call with a valid amount and buyer and 13 installments has been refused.
C6_Witness ==
    /\ Called("createPayment")
    /\ AmountValid(args.options.amount)
    /\ BuyerValid(args.options.buyer)
    /\ args.options.maxInstallment = Integer(13)
    /\ out.kind = "throw"

\* C7: createPayment checks the amount, then the buyer, then the installment
\* count (this one only when it is non-zero); the error thrown is that of
\* the first failing check in this order, and the signature and the
\* renderers come only after all the checks have passed.
C7_CheckOrder ==
    Called("createPayment") =>
        LET o == args.options
        IN /\ ~AmountValid(o.amount) =>
                 /\ out = validateAmount(o.amount)
                 /\ steps = <<"validateAmount">>
           /\ (AmountValid(o.amount) /\ ~BuyerValid(o.buyer)) =>
                 /\ out = validateBuyer(o.buyer)
                 /\ steps = <<"validateAmount", "validateBuyer">>
           /\ (/\ AmountValid(o.amount)
               /\ BuyerValid(o.buyer)
               /\ InstallmentChecked(o.maxInstallment)
               /\ ~InstallmentValid(o.maxInstallment)) =>
                 /\ out = validateInstallment(o.maxInstallment)
                 /\ steps = <<"validateAmount", "validateBuyer", "validateInstallment">>
           /\ (\E k \in 1..Len(steps) : steps[k] = "validateInstallment")
                 => InstallmentChecked(o.maxInstallment)
           /\ \A k \in 1..Len(steps) :
                 steps[k] \notin ValidatorSteps =>
                    /\ InputsValid(o)
                    /\ out.kind = "return"
                    /\ \A j \in k..Len(steps) : steps[j] \notin ValidatorSteps
                    /\ SubSeq(steps, 1, 2) = <<"validateAmount", "validateBuyer">>

\* A call whose amount, buyer and installment count are all invalid has
\* ended with the amount's error.
C7_Witness ==
    /\ Called("createPayment")
    /\ ~AmountValid(args.options.amount)
    /\ ~BuyerValid(args.options.buyer)
    /\ args.options.maxInstallment = Integer(13)
    /\ out = validateAmount(args.options.amount)

\* --------------------------------------------------------------- C8

\* The hidden input of random_nr, as the renderers write it for a number.
RandomNrInput(value) ==
    <<"<input type=\"hidden\" name=\"", "random_nr", "\" value=\"">>
        \o NumberToString(value) \o <<"\" />">>

\* C8: for every successful createPayment, when options.randomNr is given the
\* field set's random_nr is exactly that value, whatever it is, and the same
\* value is in hiddenInputs and html; when it is not given, random_nr is an
\* integer in [100000, 999999].
C8_RandomNr ==
    Created =>
        LET given == args.options.randomNr
            fd == out.value.formData
        IN IF given # Undefined
           THEN /\ fd.random_nr = given
                /\ Includes(out.value.hiddenInputs, RandomNrInput(given))
                /\ Includes(out.value.html, RandomNrInput(given))
           ELSE /\ IsInteger(fd.random_nr)
                /\ fd.random_nr.h >= 100000 * 100
                /\ fd.random_nr.h <= 999999 * 100

\* A payment with the override 0 has been created.
C8_Witness ==
    /\ Created
    /\ args.options.randomNr = Integer(0)
    /\ out.value.formData.random_nr = Integer(0)

\* --------------------------------------------------------------- C9

\* C9: every field set createPayment returns holds the 27 canonical fields,
\* each a string or a number and none null or undefined, also when billing,
\* shipping, accountAge and every optional payment option are left out.
C9_AllFieldsPresent ==
    Created =>
        LET fd == out.value.formData
        IN /\ Len(FormDataKeys) = 27
           /\ DOMAIN fd = {FormDataKeys[i] : i \in 1..Len(FormDataKeys)}
           /\ Cardinality(DOMAIN fd) = 27
           /\ \A key \in DOMAIN fd : fd[key].t \in {"string", "number"}

\* A payment with nothing but the amount and the required buyer fields has
\* been created.
C9_Witness ==
    /\ Created
    /\ \E a \in CheckedAmounts : args.options = [NoOptions EXCEPT !.amount = a]
    /\ args.options.buyer.accountAge = Undefined

\* -------------------------------------------------------------- C11

\* A credential is resolvable when the explicit value or, failing that, the
\* environment variable is a non-blank string.
Resolvable(explicit, fromEnv) == NonBlank(explicit) \/ NonBlank(fromEnv)

\* C11: resolveConfig throws InvalidApiKeyError whenever the key is
\* unresolvable, also when the secret is unresolvable too; it throws
\* InvalidApiSecretError only when the key resolves and the secret does not;
\* it returns a configuration only when both resolve.
C11_ResolveConfigErrors ==
    Called("resolveConfig") =>
        LET keyOk == Resolvable(args.config.apiKey, env.SHOPIER_API_KEY)
            secretOk == Resolvable(args.config.apiSecret, env.SHOPIER_API_SECRET)
        IN /\ ~keyOk => out = Throw(InvalidApiKeyError("API key is missing or empty"))
           /\ (keyOk /\ ~secretOk) =>
                 out = Throw(InvalidApiSecretError("API secret is missing or empty"))
           /\ (keyOk /\ secretOk) <=> out.kind = "return"

\* resolveConfig has reported the key while neither credential resolves.
C11_Witness ==
    /\ Called("resolveConfig")
    /\ ~Resolvable(args.config.apiKey, env.SHOPIER_API_KEY)
    /\ ~Resolvable(args.config.apiSecret, env.SHOPIER_API_SECRET)
    /\ out.kind = "throw"
    /\ out.error.name = "InvalidApiKeyError"

\* -------------------------------------------------------------- C12

\* The required fields of a buyer that are missing, null or blank, in the
\* order id, firstName, lastName, email, phone, productName.
MissingOf(buyer) ==
    {f \in RequiredFieldNames :
        \/ buyer[f] \in {Undefined, Null}
        \/ IsStr(buyer[f]) /\ ~NonBlank(buyer[f])}

\* C12: for every buyer with at least one required field missing, null or
\* blank after trimming, validateBuyer throws ValidationError whose
\* details.missingFields lists exactly those fields, each once; the shapes of
\* email and phone are examined only when no field is missing.
C12_MissingFields ==
    (Called("validateBuyer") /\ MissingOf(args.buyer) # {}) =>
        /\ out.kind = "throw"
        /\ out.error.name = "ValidationError"
        /\ out.error.code = "VALIDATION_ERROR"
        /\ Len(out.error.details.entries) = 1
        /\ LET listed == out.error.details.entries[1]
           IN /\ listed.key = <<"m", "i", "s", "s", "i", "n", "g", "F", "i", "e", "l", "d", "s">>
              /\ listed.value.t = "array"
              /\ {listed.value.items[i] : i \in 1..Len(listed.value.items)}
                    = MissingOf(args.buyer)
              /\ Len(listed.value.items) = Cardinality(MissingOf(args.buyer))

\* A buyer without id, with an email and a phone of the wrong shape, has been
\* refused for the id alone.
C12_Witness ==
    /\ Called("validateBuyer")
    /\ MissingOf(args.buyer) = {"id"}
    /\ ~validateEmail(args.buyer.email)
    /\ ~validatePhone(args.buyer.phone)
    /\ out.kind = "throw"

\* -------------------------------------------------------------- C13

AmountRefused ==
    /\ out.kind = "throw"
    /\ out.error.name = "ValidationError"
    /\ out.error.message = "Amount must be a valid positive number"

\* C13: validateAmount throws ValidationError for every amount that is NaN,
\* an infinity, zero, negative or not a number, and returns for every finite
\* number greater than zero; createPayment refuses the same amounts.
C13_AmountCheck ==
    /\ Called("validateAmount") =>
          IF AmountValid(args.amount) THEN out = Ok ELSE AmountRefused
    /\ Called("createPayment") =>
          (AmountRefused <=> ~AmountValid(args.options.amount))

\* createPayment, asked for three installments, has refused the string "5" as
\* an amount with the error of validateAmount.
C13_Witness ==
    /\ Called("createPayment")
    /\ args.options.amount = Str(<<"5">>)
    /\ args.options.maxInstallment = Integer(3)
    /\ out = validateAmount(Str(<<"5">>))
    /\ AmountRefused

\* -------------------------------------------------------------- C14

InstallmentRefused ==
    /\ out.kind = "throw"
    /\ out.error.name = "ValidationError"
    /\ out.error.message = "Installment must be an integer between 0 and 12"

RangeCheckRan == \E k \in 1..Len(steps) : steps[k] = "validateInstallment"

\* C14: validateInstallment returns for every integer in 0..12 and throws
\* ValidationError for every value below 0, above 12 or not an integer;
\* createPayment accepts maxInstallment exactly for the integers 0..12, for 0
\* and for an omitted count without running the range check, and then the
\* field set's platform field is that count unchanged (0 when omitted).
C14_InstallmentCheck ==
    /\ Called("validateInstallment") =>
          IF InstallmentValid(args.installment) THEN out = Ok ELSE InstallmentRefused
    /\ (Called("createPayment") /\ AmountValid(args.options.amount)
            /\ BuyerValid(args.options.buyer)) =>
          LET given == args.options.maxInstallment
          IN IF given = Undefined \/ InstallmentValid(given)
             THEN /\ out.kind = "return"
                  /\ out.value.formData.platform
                        = (IF given = Undefined THEN Integer(0) ELSE given)
                  /\ RangeCheckRan <=> given \notin {Undefined, Integer(0)}
             ELSE InstallmentRefused

\* A payment in twelve installments has passed the range check and carries 12
\* in its platform field.
C14_Witness ==
    /\ Called("createPayment")
    /\ args.options.maxInstallment = Integer(12)
    /\ RangeCheckRan
    /\ out.kind = "return"
    /\ out.value.formData.platform = Integer(12)

\* -------------------------------------------------------------- C15

\* The five replacements, as the claim lists them.
Entities ==
    [amp |-> [raw |-> "&", entity |-> <<"&", "a", "m", "p", ";">>],
     lt |-> [raw |-> "<", entity |-> <<"&", "l", "t", ";">>],
     gt |-> [raw |-> ">", entity |-> <<"&", "g", "t", ";">>],
     quot |-> [raw |-> "\"", entity |-> <<"&", "q", "u", "o", "t", ";">>],
     apos |-> [raw |-> "'", entity |-> <<"&", "#", "x", "2", "7", ";">>]]

IsSpecial(c) == \E n \in DOMAIN Entities : Entities[n].raw = c

\* What one character of the input becomes.
ImageOf(c) ==
    IF IsSpecial(c)
    THEN Entities[CHOOSE n \in DOMAIN Entities : Entities[n].raw = c].entity
    ELSE <<c>>

\* Where the image of the i-th character of s starts in the output.
RECURSIVE ImageStart(_, _)
ImageStart(s, i) == IF i = 1 THEN 1 ELSE ImageStart(s, i - 1) + Len(ImageOf(s[i - 1]))

\* C15: for every input string, escapeHtml replaces each & < > " ' by its
\* entity and changes nothing else: the output is the images of the input's
\* characters one after the other, it holds no raw < > " or ', every & in
\* it begins one of the five entities, and a string without the five
\* characters is returned unchanged.
C15_EscapeHtml ==
    (Called("escapeHtml") /\ IsStr(args.input)) =>
        LET s == args.input.s
            r == out.value.s
        IN /\ out.kind = "return"
           /\ Len(r) = ImageStart(s, Len(s) + 1) - 1
           /\ \A i \in 1..Len(s) :
                 SubSeq(r, ImageStart(s, i), ImageStart(s, i + 1) - 1) = ImageOf(s[i])
           /\ \A k \in 1..Len(r) : r[k] \notin {"<", ">", "\"", "'"}
           /\ \A k \in 1..Len(r) :
                 r[k] = "&" => \E n \in DOMAIN Entities :
                     /\ k + Len(Entities[n].entity) - 1 <= Len(r)
                     /\ SubSeq(r, k, k + Len(Entities[n].entity) - 1) = Entities[n].entity
           /\ (\A i \in 1..Len(s) : ~IsSpecial(s[i])) => r = s

\* A closing tag with both kinds of quote around it has been escaped.
C15_Witness ==
    /\ Called("escapeHtml")
    /\ args.input = Str(<<"<", "b", ">", "'", "x", "\"", "<", "/", "b", ">">>)
    /\ Len(out.value.s) = 32

\* -------------------------------------------------------------- C16

SensitiveNames ==
    {<<"e", "m", "a", "i", "l">>, <<"p", "h", "o", "n", "e">>, <<"v", "a", "l", "u", "e">>,
     <<"p", "a", "s", "s", "w", "o", "r", "d">>, <<"s", "e", "c", "r", "e", "t">>,
     <<"t", "o", "k", "e", "n">>, <<"a", "p", "i", "S", "e", "c", "r", "e", "t">>,
     <<"a", "p", "i", "K", "e", "y">>}

\* Two characters that are one letter, in whatever case.
SameLetter(a, b) ==
    \/ a = b
    \/ \E u \in 1..26 : {a, b} = {UpperCase[u], LowerCase[u]}

ContainsIgnoringCase(key, name) ==
    \E at \in 0..(Len(key) - Len(name)) :
        \A j \in 1..Len(name) : SameLetter(key[at + j], name[j])

NamesSensitive(key) == \E name \in SensitiveNames : ContainsIgnoringCase(key, name)

\* safe is the redaction of details: the same keys in the same order, the
\* marker under the sensitive keys, the value itself under the others.
IsRedactionOf(safe, details) ==
    IF details = NoDetails THEN safe = Undefined
    ELSE /\ safe.t = "object"
         /\ Len(safe.entries) = Len(details.entries)
         /\ \A i \in 1..Len(details.entries) :
               /\ safe.entries[i].key = details.entries[i].key
               /\ safe.entries[i].value =
                     (IF NamesSensitive(details.entries[i].key)
                      THEN Str(<<"[REDACTED]">>)
                      ELSE details.entries[i].value)

C16_SafeProjection ==
    /\ Called("getSafeDetails") =>
          /\ out.kind = "return"
          /\ IsRedactionOf(out.value, config.details)
    /\ Called("toSafeJSON") =>
          /\ out.kind = "return"
          /\ DOMAIN out.value = {"name", "message", "code", "details"}
          /\ out.value.name = config.name
          /\ out.value.message = config.message
          /\ out.value.code = config.code
          /\ IsRedactionOf(out.value.details, config.details)

\* C16: getSafeDetails returns undefined for an error without details, and
\* otherwise the same keys with '[REDACTED]' exactly under the keys that
\* contain, in any case, one of email, phone, value, password, secret, token,
\* apiSecret, apiKey, every other value unchanged; toSafeJSON returns name,
\* message, code and these redacted details; neither call changes the error.
C16_Redaction ==
    /\ []C16_SafeProjection
    /\ [][op' \in {"getSafeDetails", "toSafeJSON"} => config' = config]_vars

\* toSafeJSON has masked the secret entry of an error and kept its other
\* entry, and the error still holds the secret.
C16_Witness ==
    /\ Called("toSafeJSON")
    /\ config.details.t = "object"
    /\ Len(config.details.entries) = 2
    /\ config.details.entries[1] = Entry(<<"s", "e", "c", "r", "e", "t">>, Str(<<"v">>))
    /\ out.value.details.entries[1].value = Str(<<"[REDACTED]">>)
    /\ out.value.details.entries[2] = Entry(<<"t", "o", "k">>, Integer(5))

\* -------------------------------------------------------------- C17

\* The four fields of a field set that begin with prefix, as an address.
AddressFields(fd, prefix) ==
    [address |-> fd[prefix \o "_address"], city |-> fd[prefix \o "_city"],
     country |-> fd[prefix \o "_country"], postcode |-> fd[prefix \o "_postcode"]]

GivenAddress(a) ==
    [address |-> a.address, city |-> a.city, country |-> a.country, postcode |-> a.postcode]

FourEmptyStrings ==
    [address |-> Str(<<>>), city |-> Str(<<>>), country |-> Str(<<>>), postcode |-> Str(<<>>)]

\* C17: in every field set createPayment returns, the four billing_* fields
\* are the explicit billing address, or four empty strings when billing is
\* omitted; the four shipping_* fields are the explicit shipping address when
\* given, else the explicit billing address when given, else four empty
\* strings.
C17_Addresses ==
    Created =>
        LET fd == out.value.formData
            billing == args.options.billing
            shipping == args.options.shipping
        IN /\ AddressFields(fd, "billing")
                 = (IF billing # Undefined THEN GivenAddress(billing) ELSE FourEmptyStrings)
           /\ AddressFields(fd, "shipping")
                 = (IF shipping # Undefined THEN GivenAddress(shipping)
                    ELSE IF billing # Undefined THEN GivenAddress(billing)
                    ELSE FourEmptyStrings)

\* A payment with a billing address and no shipping address has been created:
\* the shipping fields are the billing address.
C17_Witness ==
    /\ Created
    /\ args.options.billing # Undefined
    /\ args.options.shipping = Undefined
    /\ AddressFields(out.value.formData, "shipping") = GivenAddress(args.options.billing)
    /\ AddressFields(out.value.formData, "shipping") # FourEmptyStrings

\* -------------------------------------------------------------- C18

\* The buyer supplies an order id: a string that is not empty.
SuppliesOrderId(buyer) == IsStr(buyer.platformOrderId) /\ Len(buyer.platformOrderId.s) > 0

OrderIdOf(buyer) == IF SuppliesOrderId(buyer) THEN buyer.platformOrderId ELSE buyer.id

\* C18: in every field set createPayment returns, platform_order_id is
\* buyer.platformOrderId when the buyer supplies one and buyer.id otherwise,
\* and the order id in the signed message is this same value.
C18_OrderId ==
    Created =>
        LET fd == out.value.formData
            buyer == args.options.buyer
        IN /\ fd.platform_order_id = OrderIdOf(buyer)
           /\ fd.signature =
                 Str(generateSignature(config.apiSecret.s,
                         JsToString(fd.random_nr) \o OrderIdOf(buyer).s
                             \o JsToString(fd.total_order_value) \o JsToString(fd.currency)))

\* A payment for a buyer with the order id "o9" has been created and signed
\* for "o9".
C18_Witness ==
    /\ Created
    /\ args.options.buyer.platformOrderId = Str(<<"o", "9">>)
    /\ args.options.buyer.id = Str(<<"b", "1">>)
    /\ out.value.formData.platform_order_id = Str(<<"o", "9">>)

\* -------------------------------------------------------------- C19

\* The calls of the log whose outcome the claim says is determined: every
\* verifyCallback, and every createPayment with a nonce of the caller's.
Determined(call) ==
    \/ call.op = "verifyCallback"
    \/ call.op = "createPayment" /\ call.args.randomNr # Undefined

ValidNotification(body) ==
    body.signature =
        Str(generateSignature(<<"s">>,
                JsToString(body.random_nr) \o JsToString(body.platform_order_id)))

BlankString(v) == IsStr(v) /\ ~NonBlank(v)

\* C20, as stated: updateConfig with an apiKey that is blank after trimming
\* throws InvalidApiKeyError, and with an apiSecret that is blank after
\* trimming throws InvalidApiSecretError, whatever the environment variables
\* hold; a blank update never changes the stored credential.
C20_BlankUpdateRejected ==
    [][(pc = "idle" /\ op' = "updateConfig") =>
          /\ BlankString(args'.updates.apiKey) =>
                /\ out' = Throw(InvalidApiKeyError("API key is missing or empty"))
                /\ config'.apiKey = config.apiKey
          /\ (BlankString(args'.updates.apiSecret) /\ ~BlankString(args'.updates.apiKey)) =>
                /\ out' = Throw(InvalidApiSecretError("API secret is missing or empty"))
                /\ config'.apiSecret = config.apiSecret]_vars

\* -------------------------------------------------------------- C21

\* C21, as stated: updateConfig is all-or-nothing: whenever a call throws
\* InvalidApiKeyError or InvalidApiSecretError, apiKey, apiSecret, language,
\* moduleVersion and websiteIndex still have the values they had before the
\* call, also when the call carried other, valid updates.
C21_AllOrNothing ==
    [][(pc = "idle" /\ op' = "updateConfig" /\ out'.kind = "throw") =>
          /\ out'.error.name \in {"InvalidApiKeyError", "InvalidApiSecretError"}
          /\ config' = config]_vars

\* -------------------------------------------------------------- C22

\* A non-empty string that neither begins nor ends with white space.
IsCredential(v) ==
    /\ IsStr(v)
    /\ Len(v.s) > 0
    /\ ~IsWhitespace(v.s[1])
    /\ ~IsWhitespace(v.s[Len(v.s)])

ManagerFields == {"apiKey", "apiSecret", "language", "moduleVersion", "websiteIndex"}

C22_CredentialsKept ==
    /\ (pc \in {"idle", "returned"}) => (IsCredential(config.apiKey) /\ IsCredential(config.apiSecret))
    /\ Called("getApiKey") => (out.kind = "return" /\ IsCredential(out.value))
    /\ Called("getApiSecret") => (out.kind = "return" /\ IsCredential(out.value))

\* C22: after construction and after any sequence of updateConfig calls,
\* returning or throwing, getApiKey() and getApiSecret() are non-empty
\* strings without leading or trailing white space; and an updateConfig call
\* that omits a field leaves that field's value unchanged.
C22_ManagerInvariant ==
    /\ []C22_CredentialsKept
    /\ [][(pc = "idle" /\ op' = "updateConfig") =>
             \A f \in ManagerFields :
                 args'.updates[f] = Undefined => config'[f] = config[f]]_vars

\* An update with a padded key and a blank secret has thrown, and the key the
\* manager holds is the trimmed one.
C22_Witness ==
    /\ Called("updateConfig")
    /\ args.updates.apiKey = Str(<<" ", "n", " ">>)
    /\ args.updates.language = Undefined
    /\ out.kind = "throw"
    /\ config.apiKey = Str(<<"n">>)
    /\ config.language = LanguageEN

\* -------------------------------------------------------------- C23

\* The signature the instance's secret gives the pair (nonce, orderId).
PairSignature(nonce, orderId) ==
    Str(generateSignature(config.apiSecret.s, JsToString(nonce) \o JsToString(orderId)))

SignatureRejected ==
    /\ out.kind = "throw"
    /\ out.error.name = "SignatureValidationError"

\* C23, as stated: a callback signature computed for one (random_nr,
\* platform_order_id) pair is accepted only for that pair: every callback that
\* carries it with a different random_nr or a different platform_order_id is
\* rejected with SignatureValidationError.
C23_AsStated ==
    Called("verifyCallback") =>
        \A nonce \in CallbackNonces, orderId \in CallbackOrderIds :
            (/\ args.body.signature = PairSignature(nonce, orderId)
             /\ <<nonce, orderId>> # <<args.body.random_nr, args.body.platform_order_id>>)
                => SignatureRejected

\* C23, amended: a callback that carries the signature of a pair is rejected
\* whenever its own random_nr followed by its platform_order_id is, in UTF-8,
\* another text than the pair's nonce followed by the pair's order id.
C23_BoundToMessage ==
    Called("verifyCallback") =>
        \A nonce \in CallbackNonces, orderId \in CallbackOrderIds :
            (/\ args.body.signature = PairSignature(nonce, orderId)
             /\ Utf8(JsToString(nonce) \o JsToString(orderId))
                   # Utf8(JsToString(args.body.random_nr)
                              \o JsToString(args.body.platform_order_id)))
                => SignatureRejected

\* The signature of ("12", "34") has been refused on a callback for
\* ("12", "b1").
C23_Witness ==
    /\ Called("verifyCallback")
    /\ args.body.random_nr = Str(<<"1", "2">>)
    /\ args.body.platform_order_id = Str(<<"b", "1">>)
    /\ args.body.signature = PairSignature(Str(<<"1", "2">>), Str(<<"3", "4">>))
    /\ SignatureRejected

\* -------------------------------------------------------------- C24

\* What the signature covers, and the secret it is made with, agree.
SameSignedPart(a, b) ==
    /\ a.random_nr = b.random_nr
    /\ a.platform_order_id = b.platform_order_id
    /\ a.signature = b.signature

\* C24: the decision of verifyCallback depends only on apiSecret, random_nr,
\* platform_order_id and signature: two callbacks verified on the instance
\* that agree on these and differ in status, payment_id or installment are
\* both accepted or both rejected.
C24_DecisionIgnoresRest ==
    \A i, j \in 1..Len(steps) :
        (/\ steps[i].op = "verifyCallback"
         /\ steps[j].op = "verifyCallback"
         /\ SameSignedPart(steps[i].args, steps[j].args))
            => steps[i].out.kind = steps[j].out.kind

\* A signed callback has been accepted as a success and, with its status,
\* payment id and installment changed, as a failure.
C24_Witness ==
    /\ Len(steps) >= 2
    /\ SameSignedPart(steps[1].args, steps[2].args)
    /\ steps[1].args.status = Str(<<"success">>)
    /\ steps[2].args.status = Str(<<"failed">>)
    /\ steps[1].out.kind = "return"
    /\ steps[2].out.kind = "return"
    /\ steps[1].out.value.success # steps[2].out.value.success

\* ---------------------------------------------------------------------------
\* Round trip: a payment is created and the gateway posts its notification
\* back to the same instance (src/src/core/shopier.ts:92-135).
\* ---------------------------------------------------------------------------

\* Payments that pass the checks, with every nonce override and every way of
\* naming the order.
RoundTripOptions ==
    {[NoOptions EXCEPT !.amount = a, !.buyer = b, !.randomNr = r] :
        a \in {Num(9999), Num(9990)},
        b \in {ValidBuyer,
               [ValidBuyer EXCEPT !.platformOrderId = Str(<<"o", "9">>)],
               [ValidBuyer EXCEPT !.platformOrderId = Str(<<>>)]},
        r \in RandomNrOverrides}

\* What the gateway can post for a field set: the nonce as a decimal string
\* and the order id as sent, signed with the shared secret over the two; or
\* the field set's own signature sent back; or a nonce of its own.
NotificationsFor(cfg, formData) ==
    LET nonce == Str(NumberToString(formData.random_nr))
        order == formData.platform_order_id
        Body(n, sig, st) ==
            [random_nr |-> n, platform_order_id |-> order,
             payment_id |-> Str(<<"p", "1">>), installment |-> Str(<<"3">>),
             status |-> st, signature |-> sig]
    IN {Body(nonce, Str(generateSignature(cfg.apiSecret.s, nonce.s \o order.s)), st) :
            st \in {Str(<<"success">>), Str(<<"failed">>)}}
       \cup {Body(nonce, formData.signature, Str(<<"success">>)),
             Body(Str(<<"7">>),
                  Str(generateSignature(cfg.apiSecret.s, nonce.s \o order.s)),
                  Str(<<"success">>))}

\* shopier.verifyCallback(body), for the notification of the payment that
\* shopier.createPayment(options) has just returned.
NotifyPayment(body) ==
    /\ pc = "returned"
    /\ op = "createPayment"
    /\ out.kind = "return"
    /\ pc' = "returned"
    /\ op' = "verifyCallback"
    /\ args' = [body |-> body]
    /\ out' = verifyCallback(config, body)
    /\ steps' = <<"verifySignature">>
    /\ UNCHANGED <<env, config>>

NextRoundTrip ==
    \/ /\ pc = "idle"
       /\ \E options \in RoundTripOptions :
              \E generated \in Generated(options) : CreatePayment(options, generated)
    \/ /\ pc = "returned" /\ op = "createPayment" /\ out.kind = "return"
       /\ \E body \in NotificationsFor(config, out.value.formData) : NotifyPayment(body)
    \/ Continue

SpecRoundTrip == InitReplay /\ [][NextRoundTrip]_vars

\* C25: a notification made from a created payment's field set - its nonce as
\* a decimal string, its order id, and the signature of the two under the
\* instance's secret - is accepted by verifyCallback on that instance, and
\* the result names the field set's order id.
IsNotificationOf(body, formData) ==
    /\ body.random_nr = Str(NumberToString(formData.random_nr))
    /\ body.platform_order_id = formData.platform_order_id
    /\ body.signature =
           Str(generateSignature(config.apiSecret.s,
                                 body.random_nr.s \o body.platform_order_id.s))

C25_RoundTrip ==
    [][(/\ pc = "returned" /\ op = "createPayment" /\ out.kind = "return"
        /\ op' = "verifyCallback"
        /\ IsNotificationOf(args'.body, out.value.formData))
       => (/\ out'.kind = "return"
           /\ out'.value.orderId = out.value.formData.platform_order_id)]_vars

\* The notification of a payment with a generated nonce and a named order has
\* been accepted.
C25_Witness ==
    /\ Called("verifyCallback")
    /\ out.kind = "return"
    /\ args.body.platform_order_id = Str(<<"o", "9">>)
    /\ args.body.random_nr \notin {Str(NumberToString(r)) : r \in RandomNrOverrides \ {Undefined}}
    /\ args.body.random_nr # Str(<<"7">>)

\* C26: validatePhone never throws, and returns true exactly for a string
\* in which, once every whitespace character, dash, parenthesis and plus sign
\* is taken out - a plus sign wherever it stands - 7 to 15 ASCII digits
\* remain and nothing else.
DigitCount(s) == Cardinality({i \in 1..Len(s) : IsDigit(s[i])})

IsPhoneSeparator(c) == IsWhitespace(c) \/ c \in {"-", "(", ")", "+"}

WellFormedPhone(phone) ==
    /\ IsStr(phone)
    /\ \A i \in 1..Len(phone.s) : IsDigit(phone.s[i]) \/ IsPhoneSeparator(phone.s[i])
    /\ DigitCount(phone.s) \in 7..15

LeadingPlusPhone(phone) ==
    /\ IsStr(phone)
    /\ LET rest == IF phone.s # <<>> /\ phone.s[1] = "+" THEN Tail(phone.s) ELSE phone.s
       IN /\ \A i \in 1..Len(rest) : IsDigit(rest[i]) \/ rest[i] \in {" ", "-", "(", ")"}
          /\ DigitCount(rest) \in 7..15

ParsedBody(fields) == [t |-> "object", fields |-> fields]

\* The callback fields read from a body of type object; an array has none.
EmptyBody ==
    [random_nr |-> Undefined, platform_order_id |-> Undefined, payment_id |-> Undefined,
     installment |-> Undefined, status |-> Undefined, signature |-> Undefined]

BodyFields(body) == IF body.t = "object" THEN body.fields ELSE EmptyBody

\* typeof body === 'object'
TypeofObject(v) == v.t \in {"object", "array", "null"}

EmptyBodyError ==
    [name |-> "Error",
     message |-> "Request body is empty or invalid. Ensure express.urlencoded is used."]

\* The catch block calls next() without the error.
express_errorSwallowed(cfg, req) == [req |-> req, next |-> << <<>> >>]

\* The handler returned by webhook.express(), applied to req and next: the
\* request as the handler leaves it, and the argument list of each call of
\* next in order.
express(cfg, req) ==
    LET body == req.body
        attempt == IF ~Truthy(body) \/ ~TypeofObject(body)
                   THEN Throw(EmptyBodyError)
                   ELSE verifyCallback(cfg, BodyFields(body))
    IN IF attempt.kind = "return"
       THEN [req |-> [req EXCEPT !.shopier = attempt.value], next |-> << <<>> >>]
       ELSE [req |-> req, next |-> << <<attempt.error>> >>]

\* Request bodies: none, unparsed text, a number, an array, the empty object
\* and the callback bodies of the main specification.
RequestBodies(cfg) ==
    {Undefined, Null, Str(<<>>), Str(<<"a", "=", "b">>), Integer(0), Integer(5),
     Bool(TRUE), Array(<<>>), ParsedBody(EmptyBody)}
    \cup {ParsedBody(b) : b \in CallbackBodies(cfg)}

\* app.post('/callback', webhook.express(), ...) handling one request.
ExpressCall(body) ==
    /\ pc = "idle"
    /\ LET result == express(config, [body |-> body, shopier |-> Undefined])
       IN /\ out' = Return(result.req)
          /\ steps' = result.next
    /\ pc' = "returned"
    /\ op' = "express"
    /\ args' = [req |-> [body |-> body, shopier |-> Undefined]]
    /\ UNCHANGED <<env, config>>

\* webhook.handleNext(request), with the form data of the request as body.
HandleNextCall(body) ==
    /\ pc = "idle"
    /\ pc' = "returned"
    /\ op' = "handleNext"
    /\ args' = [body |-> body]
    /\ out' = verifyCallback(config, body)
    /\ steps' = <<"verifySignature">>
    /\ UNCHANGED <<env, config>>

NextWebhook ==
    \/ /\ pc = "idle"
       /\ \E body \in RequestBodies(config) : ExpressCall(body)
    \/ /\ pc = "idle"
       /\ \E body \in DecodedBodies(config) : HandleNextCall(body)
    \/ Continue

SpecWebhook == InitReplay /\ [][NextWebhook]_vars

\* C27: the Express middleware calls next exactly once for every request:
\* with no argument, and with the verified result put in req.shopier, when
\* the body is an object whose signature is the one of its nonce and order id
\* under the instance's secret; with the error, and with req.shopier left
\* unset, for every other body.
RightlySigned(body) ==
    /\ body.t = "object"
    /\ body.fields.signature =
           Str(generateSignature(config.apiSecret.s,
                                 JsToString(body.fields.random_nr)
                                     \o JsToString(body.fields.platform_order_id)))

HostileTexts ==
    {Str(s) : s \in {<<"<">>, <<">">>, <<"\"">>, <<"'">>, <<"&">>,
                     <<"\"", ">", "<", "b", ">">>, <<"a", "'", "&", "l", "t", ";">>}}

\* The field set of one payment.
PlainFieldSet ==
    buildFormData(resolveConfig(EmptyConfig,
                                [SHOPIER_API_KEY |-> Str(<<"e">>),
                                 SHOPIER_API_SECRET |-> Str(<<"s">>)]).value,
                  [NoOptions EXCEPT !.amount = Num(9999), !.randomNr = Integer(123456)],
                  MIN_RANDOM).out.value

\* Field sets: the plain one; one with a field, the nonce or the language of
\* the caller's choosing; and one with a field added under a name of the
\* caller's choosing.
RenderedFieldSets ==
    {PlainFieldSet, [PlainFieldSet EXCEPT !.current_language = LanguageEN]}
    \cup {[PlainFieldSet EXCEPT ![f] = v] :
            f \in {"buyer_name", "signature", "random_nr"}, v \in HostileTexts}
    \cup {[k \in (DOMAIN PlainFieldSet) \cup {key} |->
              IF k = key THEN Str(<<"v", key>>) ELSE PlainFieldSet[k]] :
            key \in {"<", ">", "\"", "'", "&"}}

ActionUrls ==
    {SHOPIER_ACTION_URL, Str(<<"/", "p", "?", "a", "=", "'", "&", "b", "=", "\"", ">">>)}

ButtonOptionsInputs ==
    {NoButtonOptions, [NoButtonOptions EXCEPT !.buttonText = Str(<<>>)]}
    \cup {[NoButtonOptions EXCEPT ![f] = v] :
            f \in {"buttonText", "className", "style"}, v \in HostileTexts}

RenderHiddenInputsCall(formData) ==
    /\ pc = "idle"
    /\ pc' = "returned"
    /\ op' = "renderHiddenInputs"
    /\ args' = [formData |-> formData]
    /\ out' = Return(Str(renderHiddenInputs(formData)))
    /\ steps' = <<>>
    /\ UNCHANGED <<env, config>>

RenderAutoSubmitHTMLCall(formData, actionUrl, language) ==
    /\ pc = "idle"
    /\ pc' = "returned"
    /\ op' = "renderAutoSubmitHTML"
    /\ args' = [formData |-> formData, actionUrl |-> actionUrl, language |-> language]
    /\ out' = Return(Str(renderAutoSubmitHTML(formData, actionUrl, language)))
    /\ steps' = <<>>
    /\ UNCHANGED <<env, config>>

RenderButtonCall(formData, actionUrl, options) ==
    /\ pc = "idle"
    /\ pc' = "returned"
    /\ op' = "renderButton"
    /\ args' = [formData |-> formData, actionUrl |-> actionUrl, options |-> options]
    /\ out' = Return(Str(renderButton(formData, actionUrl, options)))
    /\ steps' = <<>>
    /\ UNCHANGED <<env, config>>

NextRender ==
    \/ \E formData \in RenderedFieldSets : RenderHiddenInputsCall(formData)
    \/ \E formData \in RenderedFieldSets, actionUrl \in ActionUrls,
          language \in {LanguageTR, LanguageEN} :
          RenderAutoSubmitHTMLCall(formData, actionUrl, language)
    \/ \E formData \in {PlainFieldSet}, actionUrl \in ActionUrls,
          options \in ButtonOptionsInputs :
          RenderButtonCall(formData, actionUrl, options)
    \/ \E formData \in RenderedFieldSets :
          RenderButtonCall(formData, SHOPIER_ACTION_URL, NoButtonOptions)
    \/ Continue

SpecRender == InitReplay /\ [][NextRender]_vars

\* C28: the HTML that renderHiddenInputs, renderAutoSubmitHTML and
\* renderButton produce holds no raw <, >, " or ' that comes from a field
\* name, a field value, the action URL or the button's text, class or style:
\* each of these is in the output in its escaped form.
RawMarkup == {"<", ">", "\"", "'"}

Rendered == Called("renderHiddenInputs") \/ Called("renderAutoSubmitHTML") \/ Called("renderButton")

HasEscaped(html, input) == IsStr(input) => Includes(html, escapeHtml(input))

C28_NoRawMarkup ==
    Rendered =>
        LET html == out.value.s
            formData == args.formData
        IN /\ \A i \in 1..Len(html) : html[i] \notin RawMarkup
           /\ \A key \in DOMAIN formData :
                 Includes(html, <<"<input type=\"hidden\" name=\"">>
                                    \o escapeHtml(Str(<<key>>)) \o <<"\" value=\"">>
                                    \o escapeHtml(Str(JsToString(formData[key])))
                                    \o <<"\" />">>)
           /\ ~Called("renderHiddenInputs") => HasEscaped(html, args.actionUrl)
           /\ Called("renderButton") =>
                 /\ HasEscaped(html, args.options.buttonText)
                 /\ HasEscaped(html, args.options.className)
                 /\ HasEscaped(html, args.options.style)

\* A button has been rendered with a style that closes the attribute and
\* opens a tag; the style is in the output with its five characters escaped.
C28_Witness ==
    /\ Called("renderButton")
    /\ args.options.style = Str(<<"\"", ">", "<", "b", ">">>)
    /\ Includes(out.value.s,
                <<"&", "q", "u", "o", "t", ";", "&", "g", "t", ";", "&", "l", "t", ";", "b",
                  "&", "g", "t", ";">>)

\* C29: validateConfig throws exactly when resolveConfig throws for the same
\* configuration and environment, and with the same error class.
ErrorClass(outcome) == IF outcome.kind = "throw" THEN outcome.error.name ELSE "none"

C29_SameCredentialRule ==
    Called("validateConfig") =>
        ErrorClass(out) = ErrorClass(resolveConfig(args.config, env))

\* C30: the field set of a created payment is, in every field but signature,
\* the one an instance with any other secret returns for the same options and
\* the same nonce; and the secret is part of no field and of no rendered
\* output.
OtherSecrets == {Str(<<"z">>), Str(<<"s", "s">>), Str(<<"e">>)}

\* What an instance that differs in apiSecret alone returns for the options
\* and the nonce of the payment just created.
TwinPayment(secret) ==
    createPayment([config EXCEPT !.apiSecret = secret], args.options,
                  out.value.formData.random_nr.h \div 100).out.value

C30_SecretOnlyInSignature ==
    Created =>
        LET fd == out.value.formData
            secret == config.apiSecret.s
        IN /\ \A other \in OtherSecrets :
                 \A key \in (DOMAIN fd) \ {"signature"} :
                    TwinPayment(other).formData[key] = fd[key]
           /\ \A key \in DOMAIN fd : ~Includes(JsToString(fd[key]), secret)
           /\ ~Includes(out.value.html, secret)
           /\ ~Includes(out.value.hiddenInputs, secret)

\* A payment with a nonce override has been created, and the other instance's
\* payment differs from it in the signature.
C30_Witness ==
    /\ Created
    /\ args.options.randomNr = Integer(123456)
    /\ TwinPayment(Str(<<"z">>)).formData.signature # out.value.formData.signature
    /\ TwinPayment(Str(<<"z">>)).html # out.value.html

====
